---- MODULE Spec2Model ----
(***************************************************************************)
(* Bifrost log and LogReadStream (crates/bifrost/src/read_stream.rs), and  *)
(* the command / ack / dedup protocol of the partition state machine       *)
(* (crates/worker/src/partition/state_machine/commands.rs, actions.rs).    *)
(*                                                                         *)
(* One log (one LogId) with its appenders, trim and seal, and the read     *)
(* streams over it.  LogReadStream is translated from read_stream.rs; the  *)
(* log provider behind BifrostInner (append, trim, seal, read_next_single, *)
(* read_next_single_opt) is not part of the sources at hand and is         *)
(* modelled from its specification.  AckCommand, DeduplicationSource,      *)
(* AckTarget and AckResponse are translated from commands.rs; the apply    *)
(* loop that keeps the dedup table is not part of the sources at hand and  *)
(* is modelled from its specification.  The identifier codec and the       *)
(* ServiceId constructors are translated from crates/types/src/            *)
(* identifiers.rs; the base62 string encoder and decoder behind them are   *)
(* not part of the sources at hand and are modelled from their             *)
(* specification.                                                          *)
(***************************************************************************)
EXTENDS Integers, Sequences, FiniteSets, TLC

VARIABLES
    log,            \* payloads of the appended records; log[i] is the record at Lsn i
    trim_point,     \* every record with offset <= trim_point is trimmed
    trim_arg,       \* the `until` of the latest trim call, 0 before any
    sealed,         \* TRUE once the log was sealed
    append_lsns,    \* the Lsns the successful appends returned, oldest first
    running,        \* TRUE while the log service is running
    append_ret,     \* what the latest append call returned, <<>> before any
    created,        \* per stream: has create_reader built it
    after,          \* per stream: the `after` given to create_reader
    read_pointer,   \* per stream: LogReadStream::read_pointer
    pc,             \* per stream: "idle", or "pending" inside read_next's await
    last,           \* per stream: how its latest finished read ended
    delivered,      \* per stream: the records its reads returned, oldest first
    append_call,    \* per appender: <<payload>> while its append is in flight, else <<>>
    append_done,    \* per appender: the [lsn, payload] of its returned appends
    sm_input,       \* the AckCommands handed to the state machine, oldest first
    dedup_table,    \* per dedup source identity: <<last applied seq_number>>, <<>> if none
    applied,        \* the commands the state machine applied, oldest first
    actions,        \* the Actions the state machine emitted, oldest first
    violations,     \* the dedup source identities that skipped a sequence number
    invoked,        \* the invocations in flight: started with Invoke and not ended
    inbox,          \* per service instance: the invocations waiting, oldest first
    action_input,   \* per emitted Action: the index in sm_input of the command causing it
    snapshot,       \* <<>>, or <<what a first replica was handed, held and emitted>>
    id_value,       \* the value at hand: an input, or what the latest codec call returned
    id_trace,       \* the codec calls made, oldest first, each with its argument
    node,           \* the Node built by Node::new, <<>> before
    node_pc,        \* where Node::run stands
    component_set,  \* per component of the node: its task's state
    shutdown,       \* TRUE once the shutdown signal given to Node::run fired
    signal_at,      \* where Node::run stood when the shutdown signal fired, "" before
    attached,       \* TRUE once attach_node returned Ok
    attach_attempts, \* the attachment requests that failed
    run_result      \* what Node::run returned, <<>> while it has not

vars == <<log, trim_point, trim_arg, sealed, append_lsns, running, append_ret,
          created, after, read_pointer, pc, last, delivered,
          append_call, append_done,
          sm_input, dedup_table, applied, actions, violations,
          invoked, inbox, action_input, snapshot,
          id_value, id_trace,
          node, node_pc, component_set, shutdown, signal_at, attached,
          attach_attempts, run_result>>

logVars == <<log, trim_point, trim_arg, sealed, append_lsns, running, append_ret>>
readerVars == <<created, after, read_pointer, pc, last, delivered>>
appenderVars == <<append_call, append_done>>
smVars == <<sm_input, dedup_table, applied, actions, violations,
            invoked, inbox, action_input, snapshot>>
idVars == <<id_value, id_trace>>
nodeVars == <<node, node_pc, component_set, shutdown, signal_at, attached,
              attach_attempts, run_result>>

----------------------------------------------------------------------------
(* Bounds of the model *)

MaxLsn == 3         \* appends stop when the log holds MaxLsn records
MaxAfter == 2       \* create_reader is called with after in 0..MaxAfter
MaxSeq == 2         \* sequence numbers of dedup sources and ack targets are 0..MaxSeq
MaxCommands == 3    \* the state machine is handed at most MaxCommands commands

\* a stream whose pointer reached MaxPointer issues no further read
MaxOps == 2           \* codec calls made in a row on one input
MaxPointer == MaxLsn + 1

Payloads == {"A", "B", "C"}
Readers == {"r1", "r2"}
Appenders == {"w1", "w2"}

(* test_basic_readstream *)
ReadAfter == 5      \* let read_after = Lsn::from(5)
NumReads == 5       \* for i in 1..=5 { reader.read_next() }
NumRecords == 10    \* the two append loops, 1..=5 and 6..=10

\* format!("record{}", i)
RecordPayload(i) == <<"record", i>>

----------------------------------------------------------------------------
(* Records: LogRecord { offset, record: Data | TrimGap | Seal } *)

DataRecord(offset, payload) ==
    [offset |-> offset, record |-> [kind |-> "Data", payload |-> payload]]

TrimGapRecord(offset, until) ==
    [offset |-> offset, record |-> [kind |-> "TrimGap", until |-> until]]

SealRecord(offset) ==
    [offset |-> offset, record |-> [kind |-> "Seal"]]

Max(a, b) == IF a >= b THEN a ELSE b

\* How a read ended: no read finished yet, Ok(None), Ok(record), dropped.
NoCall == <<>>
RetNone == <<"None">>
RetRecord(record) == <<"Record", record>>
Cancelled(from) == <<"Cancelled", from>>

LastKind(r) == IF last[r] = NoCall THEN "NoCall" ELSE last[r][1]

----------------------------------------------------------------------------
(* The log provider *)

\* Lsns counted from 0
NextLsn_FromZero == Len(log)

\* The Lsn the next successful append returns.
NextLsn == Len(log) + 1

\* read_next_single_opt(log_id, after): the first record with offset > after,
\* as an option: <<record>> or <<>>.
ReadNextSingleOpt(from) ==
    IF from < trim_point
    THEN <<TrimGapRecord(from + 1, trim_point)>>
    ELSE IF from < Len(log)
    THEN <<DataRecord(from + 1, log[from + 1])>>
    ELSE IF sealed
    THEN <<SealRecord(from + 1)>>
    ELSE <<>>

\* The trim point after trim(log_id, until).
TrimTo(until) == Max(trim_point, until)

\* What append returns: Ok(lsn), or the error of a failed append.
AppendOk(lsn) == <<"Ok", lsn>>
AppendErr(error) == <<"Err", error>>

\* append on a sealed log going through
AppendError_IgnoreSeal == IF ~running THEN "NotRunning" ELSE "None"

\* The error append fails with, "None" when it goes through.
AppendError ==
    IF ~running THEN "NotRunning"
    ELSE IF sealed THEN "Sealed"
    ELSE "None"

\* a failed append leaving its payload in the log
LogAfterFailedAppend_Partial(payload) == Append(log, payload)

\* The log after an append that failed.
LogAfterFailedAppend(payload) == log

\* the provider writes one record at the tail and hands out its Lsn
LogAppend(payload) ==
    /\ AppendError = "None"
    /\ log' = Append(log, payload)
    /\ append_lsns' = Append(append_lsns, NextLsn)
    /\ append_ret' = AppendOk(NextLsn)
    /\ UNCHANGED <<trim_point, trim_arg, sealed, running>>

\* append(log_id, payload), successful
BifrostAppend(payload) ==
    /\ LogAppend(payload)
    /\ UNCHANGED <<readerVars, appenderVars, smVars, idVars, nodeVars>>

\* append(log_id, payload), failing
BifrostAppendFail(payload) ==
    /\ AppendError # "None"
    /\ log' = LogAfterFailedAppend(payload)
    /\ append_ret' = AppendErr(AppendError)
    /\ UNCHANGED <<trim_point, trim_arg, sealed, running, append_lsns>>
    /\ UNCHANGED <<readerVars, appenderVars, smVars, idVars, nodeVars>>

\* the log service is started
BifrostStart ==
    /\ ~running
    /\ running' = TRUE
    /\ UNCHANGED <<log, trim_point, trim_arg, sealed, append_lsns, append_ret>>
    /\ UNCHANGED <<readerVars, appenderVars, smVars, idVars, nodeVars>>

\* the log service shuts down
BifrostShutdown ==
    /\ running
    /\ running' = FALSE
    /\ UNCHANGED <<log, trim_point, trim_arg, sealed, append_lsns, append_ret>>
    /\ UNCHANGED <<readerVars, appenderVars, smVars, idVars, nodeVars>>

\* trim(log_id, until)
BifrostTrim(until) ==
    /\ trim_point' = TrimTo(until)
    /\ trim_arg' = until
    /\ UNCHANGED <<log, sealed, append_lsns, running, append_ret>>
    /\ UNCHANGED <<readerVars, appenderVars, smVars, idVars, nodeVars>>

\* seal(log_id)
BifrostSeal ==
    /\ ~sealed
    /\ sealed' = TRUE
    /\ UNCHANGED <<log, trim_point, trim_arg, append_lsns, running, append_ret>>
    /\ UNCHANGED <<readerVars, appenderVars, smVars, idVars, nodeVars>>

----------------------------------------------------------------------------
(* Appenders: several tasks with an append in flight at the same time *)

\* the payload of appender w's next record
AppenderPayload(w) == <<w, Len(append_done[w]) + 1>>

\* the number of appends in flight
InFlight == Cardinality({w \in Appenders : append_call[w] # <<>>})

\* appender w calls append(log_id, payload); the call is in flight
AppendCall(w, payload) ==
    /\ append_call[w] = <<>>
    /\ append_call' = [append_call EXCEPT ![w] = <<payload>>]
    /\ UNCHANGED append_done
    /\ UNCHANGED <<logVars, readerVars, smVars, idVars, nodeVars>>

\* the provider serializes w's append behind those it has written and
\* returns the Lsn to w
AppendReturn(w) ==
    /\ append_call[w] # <<>>
    /\ LogAppend(append_call[w][1])
    /\ append_done' = [append_done EXCEPT ![w] =
                          Append(@, [lsn |-> NextLsn, payload |-> append_call[w][1]])]
    /\ append_call' = [append_call EXCEPT ![w] = <<>>]
    /\ UNCHANGED <<readerVars, smVars, idVars, nodeVars>>

----------------------------------------------------------------------------
(* DeduplicationSource (commands.rs) *)

\* DeduplicationSource::shuffle
ShuffleSource(shuffle_id, producing_partition_id, seq_number) ==
    [kind |-> "Shuffle",
     producing_partition_id |-> producing_partition_id,
     shuffle_id |-> shuffle_id,
     seq_number |-> seq_number]

\* DeduplicationSource::ingress
IngressSource(from_node_id, source_id, seq_number) ==
    [kind |-> "Ingress",
     from_node_id |-> from_node_id,
     source_id |-> source_id,
     seq_number |-> seq_number]

\* an identity that leaves out the ingress source_id and the producing
\* partition
DedupId_ProducerOnly(source) ==
    IF source.kind = "Shuffle"
    THEN <<"Shuffle", "partition-1", source.shuffle_id>>
    ELSE <<"Ingress", source.from_node_id, "req-1">>

\* the identity of a source: everything but its sequence number
DedupId(source) ==
    IF source.kind = "Shuffle"
    THEN <<"Shuffle", source.producing_partition_id, source.shuffle_id>>
    ELSE <<"Ingress", source.from_node_id, source.source_id>>

SeqNumbers == 0..MaxSeq

DedupSources ==
    {ShuffleSource("peer-1", "partition-1", n) : n \in SeqNumbers}
        \cup {IngressSource("node-1", "req-1", n) : n \in SeqNumbers}

\* sources of several producers: shuffles that differ in the peer or in the
\* producing partition, ingresses that differ in the node or in source_id
IdentitySources ==
    {ShuffleSource(peer[1], peer[2], n) :
        peer \in {<<"peer-1", "partition-1">>, <<"peer-2", "partition-1">>,
                  <<"peer-1", "partition-2">>},
        n \in SeqNumbers}
        \cup {IngressSource(ingress[1], ingress[2], n) :
                ingress \in {<<"node-1", "req-1">>, <<"node-1", "req-2">>,
                             <<"node-2", "req-1">>},
                n \in SeqNumbers}

DedupIds == {DedupId(source) : source \in DedupSources \cup IdentitySources}

----------------------------------------------------------------------------
(* ServiceId, FullInvocationId (identifiers.rs) *)

\* key bytes of service instances, and service names
Keys == {"k1", "k2"}
ServiceNames == {"greeter", "counter"}

\* xxh3_64 of the key bytes, a u64 written as four 16-bit limbs, most
\* significant first
Xxh3(key) ==
    CASE key = "k1" -> <<4660, 22136, 39612, 57072>>
      [] key = "k2" -> <<65244, 47768, 30292, 12816>>
      [] OTHER -> <<0, 0, 0, 0>>

\* HashPartitioner::compute_partition_key
ComputePartitionKey(key) == Xxh3(key)

\* ServiceId::with_partition_key
ServiceIdWithPartitionKey(partition_key, service_name, key) ==
    [service_name |-> service_name, key |-> key, partition_key |-> partition_key]

\* ServiceId::new
ServiceIdNew(service_name, key) ==
    ServiceIdWithPartitionKey(ComputePartitionKey(key), service_name, key)

\* FullInvocationId::with_service_id
FullInvocationIdWithServiceId(service_id, invocation_id) ==
    [service_id |-> service_id, invocation_uuid |-> invocation_id]

\* FullInvocationId::new
FullInvocationIdNew(service_name, key, invocation_id) ==
    FullInvocationIdWithServiceId(ServiceIdNew(service_name, key), invocation_id)

\* the service instances and invocations of the state machine's commands
ServiceIds == {ServiceIdNew("greeter", key) : key \in Keys}
InvocationUuids == {"uuid-1", "uuid-2", "uuid-3"}
Fids == {FullInvocationIdNew("greeter", key, uuid) : key \in Keys, uuid \in InvocationUuids}

----------------------------------------------------------------------------
(* Command (commands.rs), Action (actions.rs) *)

\* Command::Invocation(ServiceInvocation)
InvocationCommand(fid) == [type |-> "Invocation", fid |-> fid]

\* Command::Invoker(InvokerEffect), the effect reporting the invocation's end
InvokerEndCommand(fid) == [type |-> "Invoker", fid |-> fid]

\* Command::Response(InvocationResponse)
ResponseCommand(fid) == [type |-> "Response", fid |-> fid]

\* Command::TerminateInvocation(InvocationTermination::kill(fid))
KillCommand(fid) == [type |-> "TerminateInvocation", fid |-> fid]

\* Command::OutboxTruncation(MessageIndex)
OutboxTruncationCommand(index) == [type |-> "OutboxTruncation", index |-> index]

\* Action::Invoke
Invoke(fid) == [action |-> "Invoke", full_invocation_id |-> fid]

\* Action::ForwardCompletion
ForwardCompletion(fid) == [action |-> "ForwardCompletion", full_invocation_id |-> fid]

\* Action::AbortInvocation
AbortInvocation(fid) == [action |-> "AbortInvocation", full_invocation_id |-> fid]

\* the commands handed to the state machine where the ack mode is looked at
Commands ==
    {InvocationCommand(FullInvocationIdNew("greeter", "k1", "uuid-1")),
     OutboxTruncationCommand(0)}

\* the commands handed to the state machine where their effect is looked at
PartitionCommands ==
    {InvocationCommand(fid) : fid \in Fids}
        \cup {InvokerEndCommand(fid) : fid \in Fids}
        \cup {ResponseCommand(fid) : fid \in Fids}
        \cup {KillCommand(fid) : fid \in Fids}
        \cup {OutboxTruncationCommand(0)}

----------------------------------------------------------------------------
(* AckCommand, AckTarget, AckResponse (commands.rs) *)

\* AckTarget::ingress
IngressTarget(node_id, seq_number) ==
    [kind |-> "Ingress", node_id |-> node_id, seq_number |-> seq_number]

AckTargets == {IngressTarget("node-1", n) : n \in SeqNumbers}

\* AckCommand::ack
AckCommandAck(cmd, ack_target) ==
    [cmd |-> cmd, ack_mode |-> [mode |-> "Ack", target |-> ack_target]]

\* AckCommand::dedup
AckCommandDedup(cmd, deduplication_source) ==
    [cmd |-> cmd, ack_mode |-> [mode |-> "Dedup", source |-> deduplication_source]]

\* AckCommand::no_ack
AckCommandNoAck(cmd) ==
    [cmd |-> cmd, ack_mode |-> [mode |-> "None"]]

\* AckKind::Acknowledge(seq_number)
AckKindAcknowledge(seq_number) ==
    [kind |-> "Acknowledge", seq_number |-> seq_number]

\* AckKind::Duplicate { seq_number, last_known_seq_number }
AckKindDuplicate(seq_number, last_known_seq_number) ==
    [kind |-> "Duplicate",
     seq_number |-> seq_number,
     last_known_seq_number |-> last_known_seq_number]

\* AckResponse::Shuffle(ShuffleDeduplicationResponse { shuffle_target, kind })
ShuffleResponse(shuffle_target, kind) ==
    [response |-> "Shuffle", shuffle_target |-> shuffle_target, kind |-> kind]

\* AckResponse::Ingress(IngressAckResponse { _from_node_id, dedup_source, kind });
\* dedup_source is <<source_id>> for Some(source_id) and <<>> for None
IngressResponse(from_node_id, dedup_source, kind) ==
    [response |-> "Ingress",
     from_node_id |-> from_node_id,
     dedup_source |-> dedup_source,
     kind |-> kind]

\* acknowledge confirming the sequence number after the command's own
Acknowledge_NextSeq(source) ==
    IF source.kind = "Shuffle"
    THEN ShuffleResponse(source.shuffle_id, AckKindAcknowledge(source.seq_number + 1))
    ELSE IngressResponse(source.from_node_id, <<source.source_id>>,
                         AckKindAcknowledge(source.seq_number + 1))

\* acknowledge sent to the producing partition, and to the ingress without
\* its source_id
Acknowledge_OtherTarget(source) ==
    IF source.kind = "Shuffle"
    THEN ShuffleResponse(source.producing_partition_id,
                         AckKindAcknowledge(source.seq_number))
    ELSE IngressResponse(source.from_node_id, <<>>,
                         AckKindAcknowledge(source.seq_number))

\* DeduplicationSource::acknowledge
Acknowledge(source) ==
    IF source.kind = "Shuffle"
    THEN ShuffleResponse(source.shuffle_id, AckKindAcknowledge(source.seq_number))
    ELSE IngressResponse(source.from_node_id, <<source.source_id>>,
                         AckKindAcknowledge(source.seq_number))

\* duplicate with the two sequence numbers in each other's place
Duplicate_SwappedSeq(source, last_known_seq_number) ==
    IF source.kind = "Shuffle"
    THEN ShuffleResponse(source.shuffle_id,
                         AckKindDuplicate(last_known_seq_number, source.seq_number))
    ELSE IngressResponse(source.from_node_id, <<source.source_id>>,
                         AckKindDuplicate(last_known_seq_number, source.seq_number))

\* DeduplicationSource::duplicate
Duplicate(source, last_known_seq_number) ==
    IF source.kind = "Shuffle"
    THEN ShuffleResponse(source.shuffle_id,
                         AckKindDuplicate(source.seq_number, last_known_seq_number))
    ELSE IngressResponse(source.from_node_id, <<source.source_id>>,
                         AckKindDuplicate(source.seq_number, last_known_seq_number))

\* AckTarget::acknowledge naming the node as a dedup source
AckTargetAcknowledge_EchoSource(target) ==
    IngressResponse(target.node_id, <<target.node_id>>,
                    AckKindAcknowledge(target.seq_number))

\* AckTarget::acknowledge
AckTargetAcknowledge(target) ==
    IngressResponse(target.node_id, <<>>, AckKindAcknowledge(target.seq_number))

\* Action::SendAckResponse(AckResponse)
SendAckResponse(response) ==
    [action |-> "SendAckResponse", response |-> response]

----------------------------------------------------------------------------
(* The partition state machine: apply with acknowledgement and            *)
(* deduplication                                                           *)

\* an instance with an invocation in flight taken for a free one
IsLocked_Never(service_id) == FALSE

\* the service instance has an invocation in flight
IsLocked(service_id) == \E fid \in invoked : fid.service_id = service_id

\* every invocation a command names taken for one in flight
IsInFlight_Always(fid) == TRUE

\* an invocation taken for one in flight only while the log service runs
IsInFlight_WhileRunning(fid) == running /\ fid \in invoked

\* the invocation is in flight
IsInFlight(fid) == fid \in invoked

\* an invocation put in front of the waiting ones
InboxPush_Front(queue, fid) == <<fid>> \o queue

\* an invocation queued behind the waiting ones
InboxPush(queue, fid) == Append(queue, fid)

\* the invocations in flight once the one in flight `fid` has ended: the
\* oldest of its instance's inbox, if any, takes its place
InvokedAfterEnd(fid) ==
    IF inbox[fid.service_id] # <<>>
    THEN (invoked \ {fid}) \cup {Head(inbox[fid.service_id])}
    ELSE invoked \ {fid}

InboxAfterEnd(fid) ==
    IF inbox[fid.service_id] # <<>>
    THEN [inbox EXCEPT ![fid.service_id] = Tail(@)]
    ELSE inbox

ActionsAfterEnd(fid) ==
    IF inbox[fid.service_id] # <<>>
    THEN <<Invoke(Head(inbox[fid.service_id]))>>
    ELSE <<>>

\* the invocations in flight after cmd is applied
InvokedAfter(cmd) ==
    CASE cmd.type = "Invocation" ->
            IF IsLocked(cmd.fid.service_id) THEN invoked ELSE invoked \cup {cmd.fid}
      [] cmd.type \in {"Invoker", "TerminateInvocation"} ->
            IF IsInFlight(cmd.fid) THEN InvokedAfterEnd(cmd.fid) ELSE invoked
      [] OTHER -> invoked

\* the inboxes after cmd is applied
InboxAfter(cmd) ==
    CASE cmd.type = "Invocation" ->
            IF IsLocked(cmd.fid.service_id)
            THEN [inbox EXCEPT ![cmd.fid.service_id] = InboxPush(@, cmd.fid)]
            ELSE inbox
      [] cmd.type = "Invoker" ->
            IF IsInFlight(cmd.fid) THEN InboxAfterEnd(cmd.fid) ELSE inbox
      [] cmd.type = "TerminateInvocation" ->
            IF IsInFlight(cmd.fid)
            THEN InboxAfterEnd(cmd.fid)
            ELSE [inbox EXCEPT ![cmd.fid.service_id] =
                      SelectSeq(@, LAMBDA waiting : waiting # cmd.fid)]
      [] OTHER -> inbox

\* the Actions other than the acknowledgement that applying cmd emits
CommandActions(cmd) ==
    CASE cmd.type = "Invocation" ->
            IF IsLocked(cmd.fid.service_id) THEN <<>> ELSE <<Invoke(cmd.fid)>>
      [] cmd.type = "Invoker" ->
            IF IsInFlight(cmd.fid) THEN ActionsAfterEnd(cmd.fid) ELSE <<>>
      [] cmd.type = "TerminateInvocation" ->
            IF IsInFlight(cmd.fid)
            THEN <<AbortInvocation(cmd.fid)>> \o ActionsAfterEnd(cmd.fid)
            ELSE <<>>
      [] cmd.type = "Response" ->
            IF IsInFlight(cmd.fid) THEN <<ForwardCompletion(cmd.fid)>> ELSE <<>>
      [] OTHER -> <<>>

\* apply(cmd): the partition state after it
ApplyCommand(cmd) ==
    /\ invoked' = InvokedAfter(cmd)
    /\ inbox' = InboxAfter(cmd)

\* every Action emitted in this step is caused by the command handed in
CauseOfActions ==
    action_input' = action_input \o
        [i \in 1..(Len(actions') - Len(actions)) |-> Len(sm_input) + 1]

\* the last applied sequence number taken for a new one
DedupDecision_ReapplyLast(source) ==
    IF dedup_table[DedupId(source)] = <<>> THEN "Apply"
    ELSE IF source.seq_number < dedup_table[DedupId(source)][1] THEN "Duplicate"
    ELSE IF source.seq_number <= dedup_table[DedupId(source)][1] + 1 THEN "Apply"
    ELSE "Gap"

\* what the dedup algorithm does with a command of this source
DedupDecision(source) ==
    IF dedup_table[DedupId(source)] = <<>> THEN "Apply"
    ELSE IF source.seq_number <= dedup_table[DedupId(source)][1] THEN "Duplicate"
    ELSE IF source.seq_number = dedup_table[DedupId(source)][1] + 1 THEN "Apply"
    ELSE "Gap"

\* apply of AckCommand::ack(cmd, target)
ApplyAck(cmd, target) ==
    /\ sm_input' = Append(sm_input, AckCommandAck(cmd, target))
    /\ applied' = Append(applied, AckCommandAck(cmd, target))
    /\ ApplyCommand(cmd)
    /\ actions' = actions \o CommandActions(cmd)
                          \o <<SendAckResponse(AckTargetAcknowledge(target))>>
    /\ CauseOfActions
    /\ UNCHANGED <<dedup_table, violations, snapshot>>
    /\ UNCHANGED <<logVars, readerVars, appenderVars, idVars, nodeVars>>

\* an acknowledgement sent for a command that asked for none
NoAckResponses_Acknowledged ==
    <<SendAckResponse(IngressResponse("node-1", <<>>, AckKindAcknowledge(0)))>>

\* the responses sent for a command of AckMode::None: none
NoAckResponses == <<>>

\* apply of AckCommand::no_ack(cmd)
ApplyNoAck(cmd) ==
    /\ sm_input' = Append(sm_input, AckCommandNoAck(cmd))
    /\ applied' = Append(applied, AckCommandNoAck(cmd))
    /\ ApplyCommand(cmd)
    /\ actions' = actions \o CommandActions(cmd) \o NoAckResponses
    /\ CauseOfActions
    /\ UNCHANGED <<dedup_table, violations, snapshot>>
    /\ UNCHANGED <<logVars, readerVars, appenderVars, idVars, nodeVars>>

\* apply of AckCommand::dedup(cmd, source)
ApplyDedup(cmd, source) ==
    /\ sm_input' = Append(sm_input, AckCommandDedup(cmd, source))
    /\ CASE DedupDecision(source) = "Duplicate" ->
              /\ actions' = Append(actions,
                      SendAckResponse(Duplicate(source, dedup_table[DedupId(source)][1])))
              /\ UNCHANGED <<applied, dedup_table, violations, invoked, inbox>>
         [] DedupDecision(source) = "Apply" ->
              /\ dedup_table' = [dedup_table EXCEPT ![DedupId(source)] = <<source.seq_number>>]
              /\ applied' = Append(applied, AckCommandDedup(cmd, source))
              /\ ApplyCommand(cmd)
              /\ actions' = actions \o CommandActions(cmd)
                                    \o <<SendAckResponse(Acknowledge(source))>>
              /\ UNCHANGED violations
         [] DedupDecision(source) = "Gap" ->
              /\ violations' = violations \cup {DedupId(source)}
              /\ UNCHANGED <<applied, dedup_table, actions, invoked, inbox>>
    /\ CauseOfActions
    /\ UNCHANGED snapshot
    /\ UNCHANGED <<logVars, readerVars, appenderVars, idVars, nodeVars>>

\* apply of an AckCommand, by its ack mode
ApplyAckCommand(ack_cmd) ==
    CASE ack_cmd.ack_mode.mode = "Ack" -> ApplyAck(ack_cmd.cmd, ack_cmd.ack_mode.target)
      [] ack_cmd.ack_mode.mode = "Dedup" -> ApplyDedup(ack_cmd.cmd, ack_cmd.ack_mode.source)
      [] ack_cmd.ack_mode.mode = "None" -> ApplyNoAck(ack_cmd.cmd)

\* what a replica holds: its partition state with the dedup table
PartitionState ==
    [dedup_table |-> dedup_table,
     applied |-> applied,
     violations |-> violations,
     invoked |-> invoked,
     inbox |-> inbox]

\* a second replica starts from the initial partition state; what the first
\* one was handed, holds and emitted is kept for comparison
StartReplica ==
    /\ snapshot = <<>>
    /\ sm_input # <<>>
    /\ snapshot' = <<[input |-> sm_input, state |-> PartitionState, actions |-> actions]>>
    /\ sm_input' = <<>>
    /\ dedup_table' = [id \in DedupIds |-> <<>>]
    /\ applied' = <<>>
    /\ actions' = <<>>
    /\ violations' = {}
    /\ invoked' = {}
    /\ inbox' = [service_id \in ServiceIds |-> <<>>]
    /\ action_input' = <<>>
    /\ UNCHANGED <<logVars, readerVars, appenderVars, idVars, nodeVars>>

\* the second replica applies the next command of the first one's sequence
ReplicaApply ==
    /\ snapshot # <<>>
    /\ Len(sm_input) < Len(snapshot[1].input)
    /\ ApplyAckCommand(snapshot[1].input[Len(sm_input) + 1])

----------------------------------------------------------------------------
(* LogReadStream *)

\* new starting every stream at the head of the log
NewReadPointer_Head(from) == 0

\* LogReadStream::new: the initial read pointer
NewReadPointer(from) == from

\* seek_to taking a gap's `until` for the number of records it spans
SeekTo_GapLength(record) ==
    CASE record.record.kind = "TrimGap" -> record.record.until - record.offset
      [] record.record.kind = "Data" -> record.offset
      [] record.record.kind = "Seal" -> record.offset

\* seek_to without the fast-forward over a trim gap
SeekTo_NoFastForward(record) == record.offset

\* seek_to taking a data record's offset for the position of the next read
SeekTo_NextOffset(record) ==
    CASE record.record.kind = "TrimGap" -> record.record.until
      [] record.record.kind = "Data" -> record.offset + 1
      [] record.record.kind = "Seal" -> record.offset

\* LogReadStream::seek_to: the read pointer after `record` was returned
SeekTo(record) ==
    CASE record.record.kind = "TrimGap" -> record.record.until
      [] record.record.kind = "Data" -> record.offset
      [] record.record.kind = "Seal" -> record.offset

\* read_next asking for the records after the one that follows the pointer
ReadNextFrom_SkipOne(r) == read_pointer[r] + 1

\* read_next taking the read pointer for the next offset to return
ReadNextFrom_Inclusive(r) == Max(0, read_pointer[r] - 1)

\* read_next: the position handed to read_next_single
ReadNextFrom(r) == read_pointer[r]

\* read_next_opt asking for the records after the one that follows the pointer
ReadNextOptFrom_SkipOne(r) == read_pointer[r] + 1

\* read_next_opt: the position handed to read_next_single_opt
ReadNextOptFrom(r) == read_pointer[r]

\* read_next_opt stepping over the missing record
SeekOpt_StepOnNone(pointer, opt) == IF opt # <<>> THEN SeekTo(opt[1]) ELSE pointer + 1

\* read_next_opt: the pointer after the provider answered `opt`
SeekOpt(pointer, opt) == IF opt # <<>> THEN SeekTo(opt[1]) ELSE pointer

\* the awaited read seeking before its caller has received the record
DroppedReadPointer_Eager(r) ==
    SeekOpt(read_pointer[r], ReadNextSingleOpt(read_pointer[r]))

\* read_next dropped while it awaits read_next_single: the pointer it leaves
DroppedReadPointer(r) == read_pointer[r]

\* current_read_pointer()
current_read_pointer(r) == read_pointer[r]

\* an assignment to one stream's pointer landing in every stream
SetReadPointer_Shared(r, pointer) == [q \in Readers |-> pointer]

\* self.read_pointer = pointer: the pointers after stream r assigns its own
SetReadPointer(r, pointer) == [read_pointer EXCEPT ![r] = pointer]

\* create_reader(log_id, after)
CreateReader(r, from) ==
    /\ ~created[r]
    /\ created' = [created EXCEPT ![r] = TRUE]
    /\ after' = [after EXCEPT ![r] = from]
    /\ read_pointer' = SetReadPointer(r, NewReadPointer(from))
    /\ UNCHANGED <<pc, last, delivered>>
    /\ UNCHANGED <<logVars, appenderVars, smVars, idVars, nodeVars>>

\* read_next is called and awaits read_next_single
ReadNextStart(r) ==
    /\ created[r]
    /\ pc[r] = "idle"
    /\ pc' = [pc EXCEPT ![r] = "pending"]
    /\ UNCHANGED <<created, after, read_pointer, last, delivered>>
    /\ UNCHANGED <<logVars, appenderVars, smVars, idVars, nodeVars>>

\* read_next_single resolves; read_next seeks and returns the record
ReadNextComplete(r) ==
    /\ pc[r] = "pending"
    /\ ReadNextSingleOpt(ReadNextFrom(r)) # <<>>
    /\ LET record == ReadNextSingleOpt(ReadNextFrom(r))[1] IN
        /\ read_pointer' = SetReadPointer(r, SeekTo(record))
        /\ last' = [last EXCEPT ![r] = RetRecord(record)]
        /\ delivered' = [delivered EXCEPT ![r] = Append(@, record)]
    /\ pc' = [pc EXCEPT ![r] = "idle"]
    /\ UNCHANGED <<created, after>>
    /\ UNCHANGED <<logVars, appenderVars, smVars, idVars, nodeVars>>

\* the caller drops the read_next future while it is pending
ReadNextCancel(r) ==
    /\ pc[r] = "pending"
    /\ pc' = [pc EXCEPT ![r] = "idle"]
    /\ last' = [last EXCEPT ![r] = Cancelled(read_pointer[r])]
    /\ read_pointer' = SetReadPointer(r, DroppedReadPointer(r))
    /\ UNCHANGED <<created, after, delivered>>
    /\ UNCHANGED <<logVars, appenderVars, smVars, idVars, nodeVars>>

\* read_next_opt
ReadNextOpt(r) ==
    /\ created[r]
    /\ pc[r] = "idle"
    /\ LET opt == ReadNextSingleOpt(ReadNextOptFrom(r)) IN
        /\ read_pointer' = SetReadPointer(r, SeekOpt(read_pointer[r], opt))
        /\ last' = [last EXCEPT ![r] =
                        IF opt # <<>> THEN RetRecord(opt[1]) ELSE RetNone]
        /\ delivered' = [delivered EXCEPT ![r] =
                            IF opt # <<>> THEN Append(@, opt[1]) ELSE @]
    /\ UNCHANGED <<created, after, pc>>
    /\ UNCHANGED <<logVars, appenderVars, smVars, idVars, nodeVars>>

\* how a read that failed ended: the pointer it was called with and what
\* the provider held after it
RetError(pointer, would) == <<"Error", pointer, would>>

\* a failed read seeking as if the record had been returned
FailedReadPointer_Seek(r) ==
    SeekOpt(read_pointer[r], ReadNextSingleOpt(read_pointer[r]))

\* read_next, read_next_opt: `?` returns the provider's error before seek_to
FailedReadPointer(r) == read_pointer[r]

\* read_next_single fails; read_next returns the error
ReadNextFail(r) ==
    /\ pc[r] = "pending"
    /\ ~running
    /\ pc' = [pc EXCEPT ![r] = "idle"]
    /\ last' = [last EXCEPT ![r] =
                    RetError(read_pointer[r], ReadNextSingleOpt(ReadNextFrom(r)))]
    /\ read_pointer' = SetReadPointer(r, FailedReadPointer(r))
    /\ UNCHANGED <<created, after, delivered>>
    /\ UNCHANGED <<logVars, appenderVars, smVars, idVars, nodeVars>>

\* read_next_single_opt fails; read_next_opt returns the error
ReadNextOptFail(r) ==
    /\ created[r]
    /\ pc[r] = "idle"
    /\ ~running
    /\ last' = [last EXCEPT ![r] =
                    RetError(read_pointer[r], ReadNextSingleOpt(ReadNextOptFrom(r)))]
    /\ read_pointer' = SetReadPointer(r, FailedReadPointer(r))
    /\ UNCHANGED <<created, after, pc, delivered>>
    /\ UNCHANGED <<logVars, appenderVars, smVars, idVars, nodeVars>>

----------------------------------------------------------------------------
(* InvocationId, InvocationUuid (identifiers.rs): binary and string forms. *)
(* A u64 is written as four and a u128 as eight 16-bit limbs, most         *)
(* significant first; a byte slice is a sequence of 0..255, a string a     *)
(* sequence of one-character strings                                       *)

LimbBase == 65536
ByteBase == 256

\* size_of::<PartitionKey>(), InvocationUuid::SIZE_IN_BYTES,
\* InvocationId::SIZE_IN_BYTES
PartitionKeySize == 8
InvocationUuidSize == 16
InvocationIdSize == PartitionKeySize + InvocationUuidSize

\* Result::Ok, Result::Err, and a panic unwinding out of the call
Ok(kind, v) == [kind |-> kind, v |-> v]
Err(error) == [kind |-> "Err", v |-> [error |-> error]]
ErrUnrecognizedType(prefix) ==
    [kind |-> "Err", v |-> [error |-> "UnrecognizedType", prefix |-> prefix]]
Panic(message) == [kind |-> "Panic", v |-> message]

\* u64::to_be_bytes, u128::to_be_bytes
RECURSIVE ToBeBytes(_)
ToBeBytes(limbs) ==
    IF limbs = <<>> THEN <<>>
    ELSE <<Head(limbs) \div ByteBase, Head(limbs) % ByteBase>> \o ToBeBytes(Tail(limbs))

\* u64::from_be_bytes, u128::from_be_bytes
FromBeBytes(bytes) ==
    [i \in 1..(Len(bytes) \div 2) |-> bytes[2 * i - 1] * ByteBase + bytes[2 * i]]

\* InvocationId::new
InvocationIdNew(partition_key, invocation_uuid) ==
    [partition_key |-> partition_key, inner |-> invocation_uuid]

\* InvocationUuid::to_bytes, InvocationUuid::from_bytes (Ulid is a u128)
InvocationUuidToBytes(invocation_uuid) == ToBeBytes(invocation_uuid)
InvocationUuidFromBytes(b) == FromBeBytes(b)

\* Ulid::is_nil
IsNil(ulid) == \A i \in 1..Len(ulid) : ulid[i] = 0

\* InvocationUuid::from_slice, by build: the debug_assert is compiled in
\* with debug assertions and compiled out without
InvocationUuidFromSlice(b, debug_assertions) ==
    IF Len(b) # InvocationUuidSize THEN Err("Length")
    ELSE IF debug_assertions /\ IsNil(FromBeBytes(b))
         THEN Panic("assertion failed: !ulid.is_nil()")
         ELSE Ok("InvocationUuid", FromBeBytes(b))

\* encode_invocation_id with the uuid bytes written first
encode_invocation_id_UuidFirst(partition_key, invocation_uuid) ==
    InvocationUuidToBytes(invocation_uuid) \o ToBeBytes(partition_key)

\* encode_invocation_id
encode_invocation_id(partition_key, invocation_uuid) ==
    ToBeBytes(partition_key) \o InvocationUuidToBytes(invocation_uuid)

\* InvocationId::to_bytes
InvocationIdToBytes(id) == encode_invocation_id(id.partition_key, id.inner)

\* From<EncodedInvocationId> for InvocationId
FromEncodedInvocationId(encoded_id) ==
    [partition_key |-> FromBeBytes(SubSeq(encoded_id, 1, PartitionKeySize)),
     inner |-> InvocationUuidFromBytes(
                   SubSeq(encoded_id, PartitionKeySize + 1,
                          PartitionKeySize + InvocationUuidSize))]

\* TryFrom<&[u8]> that takes the leading bytes of a longer slice
InvocationIdTryFrom_Prefix(encoded_id) ==
    IF Len(encoded_id) < InvocationIdSize THEN Err("Length")
    ELSE Ok("InvocationId",
            FromEncodedInvocationId(SubSeq(encoded_id, 1, InvocationIdSize)))

\* TryFrom<&[u8]> for InvocationId
InvocationIdTryFrom(encoded_id) ==
    IF Len(encoded_id) < InvocationIdSize THEN Err("Length")
    ELSE IF Len(encoded_id) # InvocationIdSize THEN Err("Length")
    ELSE Ok("InvocationId", FromEncodedInvocationId(encoded_id))

\* InvocationId::from_slice
InvocationIdFromSlice(b) == InvocationIdTryFrom(b)

\* base62: the digits, the widths of a u64 and of a u128
Base62Alphabet ==
    <<"0", "1", "2", "3", "4", "5", "6", "7", "8", "9", "A", "B", "C",
      "D", "E", "F", "G", "H", "I", "J", "K", "L", "M", "N", "O", "P",
      "Q", "R", "S", "T", "U", "V", "W", "X", "Y", "Z", "a", "b", "c",
      "d", "e", "f", "g", "h", "i", "j", "k", "l", "m", "n", "o", "p",
      "q", "r", "s", "t", "u", "v", "w", "x", "y", "z">>
Base62Radix == Len(Base62Alphabet)
Base62MaxLengthU64 == 11
Base62MaxLengthU128 == 22

IsBase62(c) == \E i \in 1..Base62Radix : Base62Alphabet[i] = c
Base62Digit(c) == (CHOOSE i \in 1..Base62Radix : Base62Alphabet[i] = c) - 1

\* limbs divided by the radix: quotient limbs and remainder
RECURSIVE DivLimbs(_, _)
DivLimbs(limbs, carry) ==
    IF limbs = <<>> THEN [quot |-> <<>>, rem |-> carry]
    ELSE LET cur == carry * LimbBase + Head(limbs)
             rest == DivLimbs(Tail(limbs), cur % Base62Radix)
         IN [quot |-> <<cur \div Base62Radix>> \o rest.quot, rem |-> rest.rem]

\* limbs times the radix plus a digit: product limbs and what overflows
RECURSIVE MulAddLimbs(_, _)
MulAddLimbs(limbs, carry) ==
    IF limbs = <<>> THEN [limbs |-> <<>>, carry |-> carry]
    ELSE LET n == Len(limbs)
             cur == limbs[n] * Base62Radix + carry
             rest == MulAddLimbs(SubSeq(limbs, 1, n - 1), cur \div LimbBase)
         IN [limbs |-> Append(rest.limbs, cur % LimbBase), carry |-> rest.carry]

\* base62 without the leading zero digits
RECURSIVE Base62EncodeFixedWidth_NoPadding(_, _)
Base62EncodeFixedWidth_NoPadding(limbs, width) ==
    IF width = 0 \/ IsNil(limbs) THEN <<>>
    ELSE LET d == DivLimbs(limbs, 0)
         IN Base62EncodeFixedWidth_NoPadding(d.quot, width - 1)
              \o <<Base62Alphabet[d.rem + 1]>>

\* base62_encode_fixed_width: `width` digits, most significant first,
\* padded with the zero digit
RECURSIVE Base62EncodeFixedWidth(_, _)
Base62EncodeFixedWidth(limbs, width) ==
    IF width = 0 THEN <<>>
    ELSE LET d == DivLimbs(limbs, 0)
         IN Base62EncodeFixedWidth(d.quot, width - 1) \o <<Base62Alphabet[d.rem + 1]>>

\* base62 decoding of `digits` onto `acc`; <<>> when a character is not a
\* digit or the value overflows, else <<limbs>>
RECURSIVE Base62Decode(_, _)
Base62Decode(digits, acc) ==
    IF digits = <<>> THEN <<acc>>
    ELSE IF ~IsBase62(Head(digits)) THEN <<>>
    ELSE LET m == MulAddLimbs(acc, Base62Digit(Head(digits)))
         IN IF m.carry # 0 THEN <<>> ELSE Base62Decode(Tail(digits), m.limbs)

\* the type prefixes, the separator and the version tag of the string form
InvocationPrefix == <<"i", "n", "v">>
SubscriptionPrefix == <<"s", "u", "b">>
IdResourceSeparator == "_"
IdSchemeVersion == "1"

\* IdResourceType::from_str: <<>> for an unknown prefix
ResourceTypeOf(prefix) ==
    CASE prefix = InvocationPrefix -> <<"Invocation">>
      [] prefix = SubscriptionPrefix -> <<"Subscription">>
      [] OTHER -> <<>>

\* IdEncoder::<InvocationId>: prefix, separator, version, then the fields
\* pushed by push_contents_to_encoder
InvocationIdDisplay(id) ==
    InvocationPrefix \o <<IdResourceSeparator, IdSchemeVersion>>
      \o Base62EncodeFixedWidth(id.partition_key, Base62MaxLengthU64)
      \o Base62EncodeFixedWidth(id.inner, Base62MaxLengthU128)

\* IdEncoder::<InvocationId>::estimate_buf_capacity
EstimateBufCapacity ==
    Len(InvocationPrefix) + 2 + Base62MaxLengthU64 + Base62MaxLengthU128

\* IdDecoder::new: the resource type and a cursor behind the version tag
IdDecoderNew(input) ==
    IF input = <<>> THEN Err("Length")
    ELSE IF \A i \in 1..Len(input) : input[i] # IdResourceSeparator THEN Err("Format")
    ELSE LET sep == CHOOSE i \in 1..Len(input) :
                        /\ input[i] = IdResourceSeparator
                        /\ \A j \in 1..(i - 1) : input[j] # IdResourceSeparator
             prefix == SubSeq(input, 1, sep - 1)
             id_part == SubSeq(input, sep + 1, Len(input))
         IN IF ResourceTypeOf(prefix) = <<>> THEN ErrUnrecognizedType(prefix)
            ELSE IF id_part = <<>> THEN Err("Length")
            ELSE IF Head(id_part) # IdSchemeVersion THEN Err("Version")
            ELSE Ok("IdDecoder", [resource_type |-> ResourceTypeOf(prefix)[1],
                                  cursor |-> Tail(id_part)])

\* cursor.decode_next of a value `width` digits wide onto `zero`
DecodeNext(cursor, width, zero) ==
    IF Len(cursor) < width THEN Err("Length")
    ELSE LET decoded == Base62Decode(SubSeq(cursor, 1, width), zero)
         IN IF decoded = <<>> THEN Err("Format")
            ELSE Ok("Decoded", [value |-> decoded[1],
                                cursor |-> SubSeq(cursor, width + 1, Len(cursor))])

\* FromStr for InvocationId
InvocationIdFromStr(input) ==
    LET decoder == IdDecoderNew(input)
    IN IF decoder.kind = "Err" THEN decoder
       ELSE IF decoder.v.resource_type # "Invocation" THEN Err("TypeMismatch")
       ELSE LET partition_key == DecodeNext(decoder.v.cursor, Base62MaxLengthU64,
                                            <<0, 0, 0, 0>>)
            IN IF partition_key.kind = "Err" THEN partition_key
               ELSE LET raw_ulid == DecodeNext(partition_key.v.cursor, Base62MaxLengthU128,
                                               <<0, 0, 0, 0, 0, 0, 0, 0>>)
                    IN IF raw_ulid.kind = "Err" THEN raw_ulid
                       ELSE Ok("InvocationId",
                               InvocationIdNew(partition_key.v.value, raw_ulid.v.value))

\* FromStr for InvocationUuid: IdDecoder::new_ignore_prefix, then the ulid
InvocationUuidFromStr(input) ==
    LET raw_ulid == DecodeNext(input, Base62MaxLengthU128, <<0, 0, 0, 0, 0, 0, 0, 0>>)
    IN IF raw_ulid.kind = "Err" THEN raw_ulid
       ELSE Ok("InvocationUuid", raw_ulid.v.value)

\* get_invocation_journal (datafusion_helpers.rs): the id is parsed with
\* expect before the query runs
GetInvocationJournal(invocation_id) ==
    IF InvocationIdFromStr(invocation_id).kind = "Err"
    THEN Panic("Invocation ID is not valid")
    ELSE Ok("Journal", InvocationIdFromStr(invocation_id).v)

\* LambdaARN (identifiers.rs). An ARN string is written as the sequence of
\* its colons and of the non-empty runs of other characters between them

Colon == ":"

\* the components splitn(n, ':') yields, each a run sequence; the last one
\* keeps every further colon
HasColon(str) == \E i \in 1..Len(str) : str[i] = Colon
FirstColon(str) ==
    CHOOSE i \in 1..Len(str) : str[i] = Colon /\ \A j \in 1..(i - 1) : str[j] # Colon

\* split(':'): the limit ignored
RECURSIVE SplitN_All(_, _)
SplitN_All(str, n) ==
    IF ~HasColon(str) THEN <<str>>
    ELSE <<SubSeq(str, 1, FirstColon(str) - 1)>>
           \o SplitN_All(SubSeq(str, FirstColon(str) + 1, Len(str)), n)

\* str::splitn(n, ':')
RECURSIVE SplitN(_, _)
SplitN(str, n) ==
    IF n = 1 \/ ~HasColon(str) THEN <<str>>
    ELSE <<SubSeq(str, 1, FirstColon(str) - 1)>>
           \o SplitN(SubSeq(str, FirstColon(str) + 1, Len(str)), n - 1)

\* the limit from_str gives splitn
ArnComponents == 8

\* version.is_empty() taken for false
VersionIsEmpty_Never(version) == FALSE

\* version.is_empty()
VersionIsEmpty(version) == version = <<>>

\* FromStr for LambdaARN
LambdaARNFromStr(arn) ==
    LET split == SplitN(arn, ArnComponents)
    IN IF Len(split) < ArnComponents - 1 THEN Err("InvalidFormat")
       ELSE IF Len(split) < ArnComponents THEN Err("MissingVersionSuffix")
       ELSE LET prefix == split[1]
                partition == split[2]
                service == split[3]
                region == split[4]
                account_id == split[5]
                resource_type == split[6]
                name == split[7]
                version == split[8]
            IN IF prefix # <<"arn">> THEN Err("InvalidPrefix")
               ELSE IF resource_type # <<"function">> THEN Err("InvalidResourceType")
               ELSE IF service # <<"lambda">> THEN Err("InvalidService")
               ELSE IF partition = <<>> \/ region = <<>> \/ account_id = <<>> \/ name = <<>>
                    THEN Err("InvalidComponent")
               ELSE IF VersionIsEmpty(version) THEN Err("MissingVersionSuffix")
               ELSE Ok("LambdaARN", [partition |-> partition,
                                     region |-> region,
                                     account_id |-> account_id,
                                     name |-> name,
                                     version |-> version])

\* Display for LambdaARN
LambdaARNDisplay(lambda) ==
    <<"arn", Colon>> \o lambda.partition \o <<Colon, "lambda", Colon>> \o lambda.region
      \o <<Colon>> \o lambda.account_id \o <<Colon, "function", Colon>> \o lambda.name
      \o <<Colon>> \o lambda.version

\* the ARN strings given to from_str: up to nine components joined by
\* colons, an empty component leaving no run between its colons
RECURSIVE Join(_)
Join(components) ==
    IF Len(components) = 1 THEN components[1]
    ELSE components[1] \o <<Colon>> \o Join(Tail(components))
ComponentChoices ==
    <<{<<"arn">>, <<"urn">>},
      {<<"aws">>, <<>>},
      {<<"lambda">>, <<"s3">>},
      {<<"eu-central-1">>},
      {<<"1234567890">>, <<>>},
      {<<"function">>, <<"layer">>},
      {<<"e2e-node-services">>},
      {<<"version">>, <<"$LATEST">>, <<>>},
      {<<"1">>}>>
RECURSIVE ComponentLists(_)
ComponentLists(n) ==
    IF n = 1 THEN {<<c>> : c \in ComponentChoices[1]}
    ELSE {Append(components, c) : components \in ComponentLists(n - 1),
                                  c \in ComponentChoices[n]}
ArnStrs ==
    {Join(components) :
        components \in UNION {ComponentLists(n) : n \in 1..Len(ComponentChoices)}}

\* ServiceInvocationSpanContext (invocation.rs). Trace and span ids are byte
\* sequences, trace flags are "SAMPLED" or "default", a trace state is a
\* sequence of entries, Option is <<>> for None and <<v>> for Some(v)

\* SpanContext::new
SpanContextNew(trace_id, span_id, trace_flags, is_remote, trace_state) ==
    [trace_id |-> trace_id, span_id |-> span_id, trace_flags |-> trace_flags,
     is_remote |-> is_remote, trace_state |-> trace_state]

\* SpanContext::empty_context: the invalid trace id and span id, no flag set
EmptyContext ==
    SpanContextNew([i \in 1..InvocationUuidSize |-> 0],
                   [i \in 1..PartitionKeySize |-> 0], "default", FALSE, <<>>)

\* SpanContext::is_sampled
ContextIsSampled(span_context) == span_context.trace_flags = "SAMPLED"

\* ServiceInvocationSpanContext::empty
SpanContextEmpty == [span_context |-> EmptyContext, cause |-> <<>>]

\* From<InvocationUuid> for TraceId, for SpanId
TraceIdFrom(invocation_uuid) == InvocationUuidToBytes(invocation_uuid)
SpanIdFrom(invocation_uuid) ==
    SubSeq(InvocationUuidToBytes(invocation_uuid), 9, InvocationUuidSize)

\* <[u8]>::reverse
Reverse(b) == [i \in 1..Len(b) |-> b[Len(b) + 1 - i]]

\* SpanRelation::None, ::Parent, ::Linked
SpanRelationNone == [kind |-> "None"]
SpanRelationParent(span_context) == [kind |-> "Parent", span_context |-> span_context]
SpanRelationLinked(span_context) == [kind |-> "Linked", span_context |-> span_context]

\* SpanRelation::is_sampled
SpanRelationIsSampled(related_span) ==
    CASE related_span.kind = "None" -> FALSE
      [] OTHER -> ContextIsSampled(related_span.span_context)

\* ServiceInvocationSpanContext::start
SpanContextStart(invocation_uuid, related_span) ==
    IF ~SpanRelationIsSampled(related_span) THEN SpanContextEmpty
    ELSE CASE related_span.kind = "Linked" ->
                [span_context |->
                     SpanContextNew(TraceIdFrom(invocation_uuid),
                                    SpanIdFrom(invocation_uuid),
                                    related_span.span_context.trace_flags,
                                    FALSE, <<>>),
                 cause |-> <<[kind |-> "Linked",
                              trace_id |-> related_span.span_context.trace_id,
                              span_id |-> Reverse(SpanIdFrom(invocation_uuid))]>>]
           [] related_span.kind = "Parent" ->
                [span_context |->
                     SpanContextNew(related_span.span_context.trace_id,
                                    SpanIdFrom(invocation_uuid),
                                    related_span.span_context.trace_flags,
                                    FALSE,
                                    related_span.span_context.trace_state),
                 cause |-> <<[kind |-> "Parent",
                              span_id |-> related_span.span_context.span_id]>>]
           [] related_span.kind = "None" ->
                [span_context |->
                     SpanContextNew(TraceIdFrom(invocation_uuid),
                                    SpanIdFrom(invocation_uuid),
                                    "SAMPLED", FALSE, <<>>),
                 cause |-> <<>>]

\* the inputs of the codec calls
CodecPartitionKeys ==
    {<<0, 0, 0, 0>>, <<0, 0, 0, 92>>, <<65535, 65535, 65535, 65535>>, Xxh3("k1")}
Ulids ==
    {<<0, 0, 0, 0, 0, 0, 0, 0>>,
     <<0, 0, 0, 0, 0, 0, 0, 1>>,
     <<65535, 65535, 65535, 65535, 65535, 65535, 65535, 65535>>,
     <<398, 6929, 48879, 51966, 4660, 22136, 39612, 57072>>}
InvocationIds ==
    {InvocationIdNew(partition_key, ulid) : partition_key \in CodecPartitionKeys, ulid \in Ulids}
SliceLengths ==
    {0, InvocationUuidSize - 1, InvocationUuidSize, InvocationUuidSize + 1,
     InvocationIdSize - 1, InvocationIdSize, InvocationIdSize + 1}
ByteSlices ==
    {[i \in 1..n |-> b] : n \in SliceLengths, b \in {0, 92, ByteBase - 1}}
      \cup {[i \in 1..n |-> (i * 37) % ByteBase] : n \in SliceLengths}
Zeros(n) == [i \in 1..n |-> "0"]
BadStrs ==
    {<<>>,
     <<"m", "x", "v", "g", "U", "O", "r", "w", "I", "b", "8", "c", "Y", "r", "G", "P", "H", "k", "A", "A", "K", "S", "K", "Y", "3", "O", "!", "6", "I", "E", "y", "_", "g">>,
     <<"m", "x", "v", "g", "U", "O", "r", "w", "I", "b", "8">>,
     <<"i", "n", "v", "_", "u", "b", "2", "3", "4", "1", "1", "b", "a">>,
     <<"i", "n", "v", "_", "1", "b", "2", "3", "4", "d", "1", "b", "a">>}
Strs ==
    BadStrs
      \cup {InvocationPrefix \o <<IdResourceSeparator, IdSchemeVersion>> \o Zeros(n) :
               n \in {0, Base62MaxLengthU64, Base62MaxLengthU64 + Base62MaxLengthU128 - 1,
                      Base62MaxLengthU64 + Base62MaxLengthU128}}
      \cup {SubscriptionPrefix \o <<IdResourceSeparator, IdSchemeVersion>>
               \o Zeros(Base62MaxLengthU128),
            InvocationPrefix \o <<IdResourceSeparator, IdSchemeVersion>>
               \o [i \in 1..Base62MaxLengthU64 |-> "z"] \o Zeros(Base62MaxLengthU128),
            InvocationPrefix \o <<IdResourceSeparator, IdSchemeVersion>>
               \o <<"!">> \o Zeros(Base62MaxLengthU64 + Base62MaxLengthU128 - 1),
            Zeros(Base62MaxLengthU128),
            Zeros(Base62MaxLengthU128 - 1)}
ServiceIdArgs ==
    {[service_name |-> service_name, key |-> key, partition_key |-> partition_key] :
        service_name \in ServiceNames, key \in Keys,
        partition_key \in {ComputePartitionKey(k) : k \in Keys} \cup {<<0, 0, 0, 92>>}}
\* a span context of another invocation, sampled or not
RelatedContexts ==
    {SpanContextNew(TraceIdFrom(<<1, 2, 3, 4, 5, 6, 7, 8>>),
                    SpanIdFrom(<<1, 2, 3, 4, 5, 6, 7, 8>>),
                    trace_flags, FALSE, <<"vendor=1">>) :
        trace_flags \in {"SAMPLED", "default"}}
SpanRelations ==
    {SpanRelationNone}
      \cup {SpanRelationParent(span_context) : span_context \in RelatedContexts}
      \cup {SpanRelationLinked(span_context) : span_context \in RelatedContexts}
StartArgs ==
    {[invocation_uuid |-> ulid, related_span |-> related_span] :
        ulid \in Ulids, related_span \in SpanRelations}
CodecInputs ==
    {Ok("InvocationId", id) : id \in InvocationIds}
      \cup {Ok("Bytes", b) : b \in ByteSlices}
      \cup {Ok("Str", input) : input \in Strs}
      \cup {Ok("ServiceIdArgs", args) : args \in ServiceIdArgs}
      \cup {Ok("ArnStr", arn) : arn \in ArnStrs}
      \cup {Ok("StartArgs", args) : args \in StartArgs}

\* one codec call on the value at hand
Call(op, result) ==
    /\ Len(id_trace) < MaxOps
    /\ id_trace' = Append(id_trace, [op |-> op, arg |-> id_value])
    /\ id_value' = result
    /\ UNCHANGED <<logVars, readerVars, appenderVars, smVars, nodeVars>>

ToBytes ==
    /\ id_value.kind = "InvocationId"
    /\ Call("to_bytes", Ok("Bytes", InvocationIdToBytes(id_value.v)))

FromSlice ==
    /\ id_value.kind = "Bytes"
    /\ Call("from_slice", InvocationIdFromSlice(id_value.v))

Display ==
    /\ id_value.kind = "InvocationId"
    /\ Call("to_string", Ok("Str", InvocationIdDisplay(id_value.v)))

FromStr ==
    /\ id_value.kind = "Str"
    /\ Call("from_str", InvocationIdFromStr(id_value.v))

UuidFromSlice ==
    /\ id_value.kind = "Bytes"
    /\ \E debug_assertions \in BOOLEAN :
         Call("uuid_from_slice", InvocationUuidFromSlice(id_value.v, debug_assertions))

UuidFromStr ==
    /\ id_value.kind = "Str"
    /\ Call("uuid_from_str", InvocationUuidFromStr(id_value.v))

JournalOf ==
    /\ id_value.kind = "Str"
    /\ Call("get_invocation_journal", GetInvocationJournal(id_value.v))

NewServiceId ==
    /\ id_value.kind = "ServiceIdArgs"
    /\ Call("ServiceId::new",
            Ok("ServiceId", ServiceIdNew(id_value.v.service_name, id_value.v.key)))

NewServiceIdWithPartitionKey ==
    /\ id_value.kind = "ServiceIdArgs"
    /\ Call("ServiceId::with_partition_key",
            Ok("ServiceId", ServiceIdWithPartitionKey(id_value.v.partition_key,
                                                      id_value.v.service_name,
                                                      id_value.v.key)))

ArnFromStr ==
    /\ id_value.kind = "ArnStr"
    /\ Call("LambdaARN::from_str", LambdaARNFromStr(id_value.v))

ArnToString ==
    /\ id_value.kind = "LambdaARN"
    /\ Call("LambdaARN::to_string", Ok("ArnStr", LambdaARNDisplay(id_value.v)))

Start ==
    /\ id_value.kind = "StartArgs"
    /\ Call("ServiceInvocationSpanContext::start",
            Ok("ServiceInvocationSpanContext",
               SpanContextStart(id_value.v.invocation_uuid, id_value.v.related_span)))

----------------------------------------------------------------------------
(* Node (node/src/lib.rs): Node::new and Node::run. run spawns the node     *)
(* server and the cluster controller role, attaches to the cluster         *)
(* controller, spawns the worker role and waits for the shutdown signal.   *)
(* Each tokio::select! takes one of its branches that is ready             *)

Roles == {"ClusterController", "Worker"}
Components == {"server", "cluster-controller-role", "worker-role"}

\* Options::cluster_controller_address: None, an address, and an address that
\* is no valid uri authority
AddressOptions == {<<>>, <<"remote">>, <<"invalid">>}

\* max_attempts of the RetryPolicy of attach_node
AttachMaxAttempts == 10

\* Node::new
NodeOf(roles, address) ==
    IF address # <<>>
    THEN Ok("Node", [cluster_controller_address |-> address[1],
                     cluster_controller_role |-> "ClusterController" \in roles,
                     worker_role |-> "Worker" \in roles])
    ELSE IF "ClusterController" \in roles
    THEN Ok("Node", [cluster_controller_address |-> "local",
                     cluster_controller_role |-> TRUE,
                     worker_role |-> "Worker" \in roles])
    ELSE Err("UnknownClusterController")

\* every component spawned before the attachment, the worker role too
SpawnedAtStart_All(n) ==
    {"server"}
        \cup (IF n.cluster_controller_role THEN {"cluster-controller-role"} ELSE {})
        \cup (IF n.worker_role THEN {"worker-role"} ELSE {})

\* the components Node::run spawns before it attaches
SpawnedAtStart(n) ==
    {"server"}
        \cup (IF n.cluster_controller_role THEN {"cluster-controller-role"} ELSE {})

\* the components Node::run spawns after attach_node returned Ok
SpawnedAfterAttach(n) == IF n.worker_role THEN {"worker-role"} ELSE {}

\* the JoinSet is dropped: the tasks still running are aborted
AbortAll == [c \in Components |->
                IF component_set[c] = "running" THEN "aborted" ELSE component_set[c]]

\* drain() returns at once, with components still running
AllDrained_NoWait == TRUE

\* component_shutdown_signal.drain() returns: no spawned component holds its
\* watch any more
AllDrained == \A c \in Components : component_set[c] # "running"

\* what join_next hands Node::run for a component that ended
JoinResult(ended) ==
    CASE ended = "exited_ok" -> Panic("Unexpected termination")
      [] ended = "exited_err" -> Err("Component")
      [] ended = "panicked" -> Err("ComponentPanic")

NodeInit ==
    /\ node = Ok("None", <<>>)
    /\ node_pc = "new"
    /\ component_set = [c \in Components |-> "none"]
    /\ shutdown = FALSE
    /\ signal_at = ""
    /\ attached = FALSE
    /\ attach_attempts = 0
    /\ run_result = <<>>

\* Node::new(options)
NodeNew(roles, address) ==
    /\ node = Ok("None", <<>>)
    /\ node' = NodeOf(roles, address)
    /\ UNCHANGED <<node_pc, component_set, shutdown, signal_at, attached,
                   attach_attempts, run_result>>
    /\ UNCHANGED <<logVars, readerVars, appenderVars, smVars, idVars>>

\* Node::run up to its first select: the server and the cluster controller
\* role are spawned
RunStart ==
    /\ node.kind = "Node"
    /\ node_pc = "new"
    /\ component_set' = [c \in Components |->
                         IF c \in SpawnedAtStart(node.v) THEN "running" ELSE "none"]
    /\ node_pc' = "attaching"
    /\ UNCHANGED <<node, shutdown, signal_at, attached, attach_attempts, run_result>>
    /\ UNCHANGED <<logVars, readerVars, appenderVars, smVars, idVars>>

\* the shutdown signal given to Node::run fires
ShutdownSignal ==
    /\ node.kind = "Node"
    /\ ~shutdown
    /\ node_pc # "returned"
    /\ shutdown' = TRUE
    /\ signal_at' = node_pc
    /\ UNCHANGED <<node, node_pc, component_set, attached, attach_attempts, run_result>>
    /\ UNCHANGED <<logVars, readerVars, appenderVars, smVars, idVars>>

\* a spawned component ends although no shutdown was signalled to it
ComponentExit(c, ended) ==
    /\ node_pc \in {"attaching", "running"}
    /\ component_set[c] = "running"
    /\ component_set' = [component_set EXCEPT ![c] = ended]
    /\ UNCHANGED <<node, node_pc, shutdown, signal_at, attached,
                   attach_attempts, run_result>>
    /\ UNCHANGED <<logVars, readerVars, appenderVars, smVars, idVars>>

\* attach_node: create_channel_from_network_address fails
AttachInvalidAddress ==
    /\ node_pc = "attaching"
    /\ node.v.cluster_controller_address = "invalid"
    /\ run_result' = Err("InvalidClusterControllerAddress")
    /\ node_pc' = "returned"
    /\ component_set' = AbortAll
    /\ UNCHANGED <<node, shutdown, signal_at, attached, attach_attempts>>
    /\ UNCHANGED <<logVars, readerVars, appenderVars, smVars, idVars>>

\* attach_node: an attachment request fails and the policy retries after a
\* delay; a shutdown signal that fired wins the select during the delay
AttachRetry ==
    /\ node_pc = "attaching"
    /\ node.v.cluster_controller_address # "invalid"
    /\ ~shutdown
    /\ attach_attempts + 1 < AttachMaxAttempts
    /\ attach_attempts' = attach_attempts + 1
    /\ UNCHANGED <<node, node_pc, component_set, shutdown, signal_at, attached, run_result>>
    /\ UNCHANGED <<logVars, readerVars, appenderVars, smVars, idVars>>

\* the attachment branch of the first select, attach_node returned Err: the
\* last attempt of the policy failed
AttachExhausted ==
    /\ node_pc = "attaching"
    /\ node.v.cluster_controller_address # "invalid"
    /\ attach_attempts + 1 = AttachMaxAttempts
    /\ attach_attempts' = attach_attempts + 1
    /\ run_result' = Err("Attachment")
    /\ node_pc' = "returned"
    /\ component_set' = AbortAll
    /\ UNCHANGED <<node, shutdown, signal_at, attached>>
    /\ UNCHANGED <<logVars, readerVars, appenderVars, smVars, idVars>>

\* the attachment branch of the first select, attach_node returned Ok: the
\* worker role is spawned and run goes on to its second select
AttachOk ==
    /\ node_pc = "attaching"
    /\ node.v.cluster_controller_address # "invalid"
    /\ attach_attempts < AttachMaxAttempts
    /\ attached' = TRUE
    /\ component_set' = [c \in Components |->
                         IF c \in SpawnedAfterAttach(node.v) THEN "running"
                         ELSE component_set[c]]
    /\ node_pc' = "running"
    /\ UNCHANGED <<node, shutdown, signal_at, attach_attempts, run_result>>
    /\ UNCHANGED <<logVars, readerVars, appenderVars, smVars, idVars>>

\* the shutdown branch of either select up to drain(): the components are
\* signalled
SelectShutdown ==
    /\ node_pc \in {"attaching", "running"}
    /\ shutdown
    /\ node_pc' = "draining"
    /\ UNCHANGED <<node, component_set, shutdown, signal_at, attached,
                   attach_attempts, run_result>>
    /\ UNCHANGED <<logVars, readerVars, appenderVars, smVars, idVars>>

\* the join_next branch of either select
SelectComponent(c) ==
    /\ node_pc \in {"attaching", "running"}
    /\ component_set[c] \in {"exited_ok", "exited_err", "panicked"}
    /\ run_result' = JoinResult(component_set[c])
    /\ node_pc' = "returned"
    /\ component_set' = AbortAll
    /\ UNCHANGED <<node, shutdown, signal_at, attached, attach_attempts>>
    /\ UNCHANGED <<logVars, readerVars, appenderVars, smVars, idVars>>

\* a signalled component finishes and drops its watch
ComponentDrain(c) ==
    /\ node_pc = "draining"
    /\ component_set[c] = "running"
    /\ component_set' = [component_set EXCEPT ![c] = "drained"]
    /\ UNCHANGED <<node, node_pc, shutdown, signal_at, attached,
                   attach_attempts, run_result>>
    /\ UNCHANGED <<logVars, readerVars, appenderVars, smVars, idVars>>

\* the shutdown branch after drain(): component_set.shutdown() and Ok(())
DrainDone ==
    /\ node_pc = "draining"
    /\ AllDrained
    /\ component_set' = AbortAll
    /\ run_result' = Ok("Unit", <<>>)
    /\ node_pc' = "returned"
    /\ UNCHANGED <<node, shutdown, signal_at, attached, attach_attempts>>
    /\ UNCHANGED <<logVars, readerVars, appenderVars, smVars, idVars>>

----------------------------------------------------------------------------
(* Specification: appends, trims, a seal and one read stream *)

Init ==
    /\ log = <<>>
    /\ trim_point = 0
    /\ trim_arg = 0
    /\ sealed = FALSE
    /\ append_lsns = <<>>
    /\ running = TRUE
    /\ append_ret = <<>>
    /\ created = [r \in Readers |-> FALSE]
    /\ after = [r \in Readers |-> 0]
    /\ read_pointer = [r \in Readers |-> 0]
    /\ pc = [r \in Readers |-> "idle"]
    /\ last = [r \in Readers |-> NoCall]
    /\ delivered = [r \in Readers |-> <<>>]
    /\ append_call = [w \in Appenders |-> <<>>]
    /\ append_done = [w \in Appenders |-> <<>>]
    /\ sm_input = <<>>
    /\ dedup_table = [id \in DedupIds |-> <<>>]
    /\ applied = <<>>
    /\ actions = <<>>
    /\ violations = {}
    /\ invoked = {}
    /\ inbox = [service_id \in ServiceIds |-> <<>>]
    /\ action_input = <<>>
    /\ snapshot = <<>>
    /\ id_value = Ok("None", <<>>)
    /\ id_trace = <<>>
    /\ NodeInit

Next ==
    \/ \E payload \in Payloads : Len(log) < MaxLsn /\ BifrostAppend(payload)
    \/ \E until \in 1..MaxLsn : BifrostTrim(until)
    \/ BifrostSeal
    \/ \E from \in 0..MaxAfter : CreateReader("r1", from)
    \/ read_pointer["r1"] < MaxPointer /\ ReadNextStart("r1")
    \/ ReadNextComplete("r1")
    \/ ReadNextCancel("r1")
    \/ read_pointer["r1"] < MaxPointer /\ ReadNextOpt("r1")

Spec == Init /\ [][Next]_vars

----------------------------------------------------------------------------
(* Specification: test_basic_readstream, a stream created after Lsn 5 that *)
(* reads 5 records while 10 records "record{i}" are appended               *)

TestNext ==
    \/ CreateReader("r1", ReadAfter)
    \/ Len(log) < NumRecords /\ BifrostAppend(RecordPayload(NextLsn))
    \/ Len(delivered["r1"]) < NumReads /\ ReadNextStart("r1")
    \/ ReadNextComplete("r1")
    \/ Len(delivered["r1"]) < NumReads /\ ReadNextOpt("r1")

TestSpec == Init /\ [][TestNext]_vars

\* The test's tasks run to their end: the main task appends its records and
\* the runtime polls the spawned reader whenever it can make progress.
FairTestSpec ==
    /\ TestSpec
    /\ WF_vars(CreateReader("r1", ReadAfter))
    /\ WF_vars(Len(log) < NumRecords /\ BifrostAppend(RecordPayload(NextLsn)))
    /\ WF_vars(Len(delivered["r1"]) < NumReads /\ ReadNextStart("r1"))
    /\ WF_vars(ReadNextComplete("r1"))

----------------------------------------------------------------------------
(* Specification: the write surface. Appends that succeed or fail, a seal,  *)
(* the log service stopping and starting, and a stream reading with        *)
(* read_next_opt while the service runs                                    *)

WriteNext ==
    \/ \E payload \in Payloads : Len(log) < MaxLsn /\ BifrostAppend(payload)
    \/ \E payload \in Payloads : BifrostAppendFail(payload)
    \/ BifrostSeal
    \/ BifrostShutdown
    \/ BifrostStart
    \/ CreateReader("r1", 0)
    \/ running /\ read_pointer["r1"] < MaxPointer /\ ReadNextOpt("r1")

WriteSpec == Init /\ [][WriteNext]_vars

----------------------------------------------------------------------------
(* Specification: reads while the log service stops and starts. A read     *)
(* answered while the service is stopped fails                             *)

ReadFailNext ==
    \/ \E payload \in Payloads : Len(log) < MaxLsn /\ BifrostAppend(payload)
    \/ BifrostShutdown
    \/ BifrostStart
    \/ \E from \in 0..MaxAfter : CreateReader("r1", from)
    \/ ReadNextStart("r1")
    \/ running /\ ReadNextComplete("r1")
    \/ ReadNextFail("r1")
    \/ running /\ ReadNextOpt("r1")
    \/ ReadNextOptFail("r1")

ReadFailSpec == Init /\ [][ReadFailNext]_vars

----------------------------------------------------------------------------
(* Specification: two appenders with appends in flight at the same time    *)
(* and two read streams                                                    *)

MultiNext ==
    \/ \E w \in Appenders :
          Len(log) + InFlight < MaxLsn /\ AppendCall(w, AppenderPayload(w))
    \/ \E w \in Appenders : AppendReturn(w)
    \/ \E r \in Readers : \E from \in 0..MaxAfter : CreateReader(r, from)
    \/ \E r \in Readers : read_pointer[r] < MaxPointer /\ ReadNextStart(r)
    \/ \E r \in Readers : ReadNextComplete(r)
    \/ \E r \in Readers : ReadNextCancel(r)
    \/ \E r \in Readers : read_pointer[r] < MaxPointer /\ ReadNextOpt(r)

MultiSpec == Init /\ [][MultiNext]_vars

----------------------------------------------------------------------------
(* Specification: the apply loop handed commands of every AckMode, first   *)
(* deliveries and redeliveries in any order                                *)

DedupNext ==
    \/ \E cmd \in Commands : \E source \in DedupSources :
          Len(sm_input) < MaxCommands /\ ApplyDedup(cmd, source)
    \/ \E cmd \in Commands : \E target \in AckTargets :
          Len(sm_input) < MaxCommands /\ ApplyAck(cmd, target)
    \/ \E cmd \in Commands :
          Len(sm_input) < MaxCommands /\ ApplyNoAck(cmd)

DedupSpec == Init /\ [][DedupNext]_vars

----------------------------------------------------------------------------
(* Specification: one command handed to the state machine again and again  *)
(* by several producers, each with its own sequence numbers                *)

ProducersNext ==
    \E source \in IdentitySources :
        /\ Len(sm_input) < MaxCommands
        /\ ApplyDedup(OutboxTruncationCommand(0), source)

ProducersSpec == Init /\ [][ProducersNext]_vars

----------------------------------------------------------------------------
(* Specification: the partition processor. AckCommands are appended to the *)
(* partition's log; the processor reads the log from its head and applies  *)
(* each record before it reads the next                                    *)

LogCommands ==
    {AckCommandNoAck(InvocationCommand(FullInvocationIdNew("greeter", "k1", uuid))) :
        uuid \in InvocationUuids}
      \cup {AckCommandAck(KillCommand(FullInvocationIdNew("greeter", "k1", "uuid-1")),
                          IngressTarget("node-1", 0))}
      \cup {AckCommandDedup(InvocationCommand(FullInvocationIdNew("greeter", "k1", "uuid-1")),
                            ShuffleSource("peer-1", "partition-1", n)) : n \in SeqNumbers}

\* the processor applies the record it has read
ApplyNextRecord ==
    /\ Len(sm_input) < Len(delivered["r1"])
    /\ ApplyAckCommand(delivered["r1"][Len(sm_input) + 1].record.payload)

PartitionNext ==
    \/ \E ack_cmd \in LogCommands : Len(log) < MaxLsn /\ BifrostAppend(ack_cmd)
    \/ CreateReader("r1", 0)
    \/ Len(sm_input) = Len(delivered["r1"]) /\ ReadNextStart("r1")
    \/ ReadNextComplete("r1")
    \/ ApplyNextRecord

PartitionSpec == Init /\ [][PartitionNext]_vars

----------------------------------------------------------------------------
(* Specification: two replicas, one after the other, handed the same       *)
(* sequence of AckCommands while the log service stops and starts          *)

ReplicaNext ==
    \/ \E ack_cmd \in LogCommands :
          snapshot = <<>> /\ Len(sm_input) < MaxCommands /\ ApplyAckCommand(ack_cmd)
    \/ StartReplica
    \/ ReplicaApply
    \/ BifrostShutdown
    \/ BifrostStart

ReplicaSpec == Init /\ [][ReplicaNext]_vars

----------------------------------------------------------------------------
(* Specification: the apply loop handed commands on invocations of two     *)
(* service instances                                                       *)

InvocationNext ==
    \E cmd \in PartitionCommands :
        Len(sm_input) < MaxCommands /\ ApplyNoAck(cmd)

InvocationSpec == Init /\ [][InvocationNext]_vars

----------------------------------------------------------------------------
(* Specification: the identifier codec and the ServiceId constructors,     *)
(* called on inputs drawn from CodecInputs                                 *)

CodecInit ==
    /\ log = <<>>
    /\ trim_point = 0
    /\ trim_arg = 0
    /\ sealed = FALSE
    /\ append_lsns = <<>>
    /\ running = TRUE
    /\ append_ret = <<>>
    /\ created = [r \in Readers |-> FALSE]
    /\ after = [r \in Readers |-> 0]
    /\ read_pointer = [r \in Readers |-> 0]
    /\ pc = [r \in Readers |-> "idle"]
    /\ last = [r \in Readers |-> NoCall]
    /\ delivered = [r \in Readers |-> <<>>]
    /\ append_call = [w \in Appenders |-> <<>>]
    /\ append_done = [w \in Appenders |-> <<>>]
    /\ sm_input = <<>>
    /\ dedup_table = [id \in DedupIds |-> <<>>]
    /\ applied = <<>>
    /\ actions = <<>>
    /\ violations = {}
    /\ invoked = {}
    /\ inbox = [service_id \in ServiceIds |-> <<>>]
    /\ action_input = <<>>
    /\ snapshot = <<>>
    /\ id_value \in CodecInputs
    /\ id_trace = <<>>
    /\ NodeInit

CodecNext ==
    \/ ToBytes
    \/ FromSlice
    \/ Display
    \/ FromStr
    \/ UuidFromSlice
    \/ UuidFromStr
    \/ JournalOf
    \/ NewServiceId
    \/ NewServiceIdWithPartitionKey
    \/ ArnFromStr
    \/ ArnToString
    \/ Start

CodecSpec == CodecInit /\ [][CodecNext]_vars

----------------------------------------------------------------------------
(* Specification: a node is built and run, its shutdown signal fires at    *)
(* any moment                                                              *)

NodeNext ==
    \/ \E roles \in SUBSET Roles : \E address \in AddressOptions :
          NodeNew(roles, address)
    \/ RunStart
    \/ ShutdownSignal
    \/ \E c \in Components : \E ended \in {"exited_ok", "exited_err", "panicked"} :
          ComponentExit(c, ended)
    \/ AttachInvalidAddress
    \/ AttachRetry
    \/ AttachExhausted
    \/ AttachOk
    \/ SelectShutdown
    \/ \E c \in Components : SelectComponent(c)
    \/ \E c \in Components : ComponentDrain(c)
    \/ DrainDone

NodeSpec == Init /\ [][NodeNext]_vars

----------------------------------------------------------------------------
(* Properties *)

Last(seq) == seq[Len(seq)]

\* A record with offset > p can be read: a trimmed offset, an appended record
\* or the seal.
Available(p) == p < trim_point \/ p < Len(log) \/ sealed

\* The Lsns a delivered record stands for.
Coverage(record) ==
    IF record.record.kind = "TrimGap"
    THEN record.offset .. record.record.until
    ELSE {record.offset}

\* C1: with no trim (and no seal), a stream created at after = 0 has received
\* exactly the first records of the log, each once and in append order: its
\* i-th read returned the i-th appended payload at offset i, and its pointer
\* stands at the last one, so that the next read returns the next record.
C1_ReadsInAppendOrder ==
    \A r \in Readers :
        (created[r] /\ after[r] = 0 /\ trim_point = 0 /\ ~sealed) =>
            /\ Len(delivered[r]) <= Len(log)
            /\ read_pointer[r] = Len(delivered[r])
            /\ \A i \in 1..Len(delivered[r]) :
                /\ delivered[r][i].offset = i
                /\ delivered[r][i].record.kind = "Data"
                /\ delivered[r][i].record.payload = log[i]

C1_Witness ==
    /\ created["r1"] /\ after["r1"] = 0 /\ trim_point = 0 /\ ~sealed
    /\ log = <<"A", "B", "C">>
    /\ Len(delivered["r1"]) = 3

\* C2: the k-th successful append returned Lsn k: the Lsns start at 1, are
\* consecutive and strictly increasing, none is returned twice or skipped.
C2_ConsecutiveLsns ==
    /\ Len(append_lsns) = Len(log)
    /\ \A k \in 1..Len(append_lsns) : append_lsns[k] = k

C2_Witness == Len(append_lsns) >= 3

\* C3: every record a read returns is the one at offset read pointer + 1, the
\* first above the pointer, never one at or below it; a stream created at
\* `after` receives nothing, and its read_next stays pending, while the open,
\* untrimmed log holds no record above `after`; the first record it receives
\* is the one at after + 1.
C3_ReadsAbovePointer ==
    /\ [][\A r \in Readers :
            delivered'[r] # delivered[r] =>
                /\ Last(delivered'[r]).offset > read_pointer[r]
                /\ Last(delivered'[r]).offset = read_pointer[r] + 1
                /\ Last(delivered'[r]).record.kind = "Data" =>
                      /\ read_pointer[r] + 1 <= Len(log)
                      /\ Last(delivered'[r]).record.payload = log[read_pointer[r] + 1]]_vars
    /\ [](\A r \in Readers :
            (created[r] /\ ~sealed /\ trim_point <= after[r] /\ Len(log) <= after[r]) =>
                /\ delivered[r] = <<>>
                /\ LastKind(r) # "Record"
                /\ ~ENABLED ReadNextComplete(r))
    /\ [](\A r \in Readers :
            delivered[r] # <<>> => delivered[r][1].offset = after[r] + 1)

C3_Witness ==
    /\ created["r1"] /\ after["r1"] = MaxAfter /\ ~sealed /\ trim_point = 0
    /\ LastKind("r1") = "Record"
    /\ Len(delivered["r1"]) = 1
    /\ delivered["r1"][1].offset = MaxAfter + 1
    /\ delivered["r1"][1].record.kind = "Data"

\* C4: a read_next dropped while pending changes nothing: the read pointer is
\* the one the call started from, nothing is delivered and the log is
\* untouched; the next record the stream receives after the cancellation is
\* the first record above that pointer, the one the dropped call was waiting
\* for, and it is delivered once.
C4_CancellationSafe ==
    /\ [](\A r \in Readers :
            LastKind(r) = "Cancelled" => current_read_pointer(r) = last[r][2])
    /\ [][\A r \in Readers :
            (pc[r] = "pending" /\ LastKind(r)' = "Cancelled" /\ pc'[r] = "idle") =>
                /\ read_pointer'[r] = read_pointer[r]
                /\ delivered'[r] = delivered[r]
                /\ UNCHANGED logVars]_vars
    /\ [][\A r \in Readers :
            (LastKind(r) = "Cancelled" /\ delivered'[r] # delivered[r]) =>
                /\ delivered'[r] = Append(delivered[r], Last(delivered'[r]))
                /\ Last(delivered'[r]).offset = last[r][2] + 1
                /\ Last(delivered'[r]) = ReadNextSingleOpt(last[r][2])[1]
                /\ \A i \in 1..Len(delivered[r]) :
                      Coverage(delivered[r][i]) \cap Coverage(Last(delivered'[r])) = {}]_vars

C4_Witness ==
    /\ LastKind("r1") = "Cancelled"
    /\ delivered["r1"] # <<>>
    /\ Available(read_pointer["r1"])

\* C5: the read pointer of a stream never decreases, whatever reads, appends,
\* trims and seals are interleaved, also when a TrimGap or a Seal is
\* delivered.
C5_PointerMonotonic ==
    [][\A r \in Readers :
        created[r] => current_read_pointer(r)' >= current_read_pointer(r)]_vars

C5_Witness ==
    /\ sealed
    /\ Len(delivered["r1"]) >= 2
    /\ \E i \in 1..Len(delivered["r1"]) :
          /\ delivered["r1"][i].record.kind = "TrimGap"
          /\ delivered["r1"][i].record.until > delivered["r1"][i].offset
    /\ Last(delivered["r1"]).record.kind = "Seal"
    /\ read_pointer["r1"] > after["r1"]

\* C6: once a read has returned a record, current_read_pointer() is the
\* record's offset for Data and Seal and the gap's `until` for a TrimGap;
\* until a stream has received a record it is the `after` of create_reader.
C6_PointerAfterRead ==
    \A r \in Readers :
        created[r] =>
            /\ delivered[r] = <<>> => current_read_pointer(r) = after[r]
            /\ LastKind(r) = "Record" =>
                  current_read_pointer(r) =
                      IF last[r][2].record.kind = "TrimGap"
                      THEN last[r][2].record.until
                      ELSE last[r][2].offset
            /\ delivered[r] # <<>> =>
                  current_read_pointer(r) =
                      IF Last(delivered[r]).record.kind = "TrimGap"
                      THEN Last(delivered[r]).record.until
                      ELSE Last(delivered[r]).offset

C6_Witness ==
    /\ LastKind("r1") = "Record"
    /\ last["r1"][2].record.kind = "TrimGap"
    /\ last["r1"][2].record.until > last["r1"][2].offset
    /\ after["r1"] > 0

\* C7: read_next_opt finishes in the step it is called in; it answers None
\* exactly when no record above the read pointer exists, and a None leaves
\* the read pointer and what the stream has received unchanged.
C7_ReadNextOptNone ==
    /\ [][\A r \in Readers :
            last'[r] = RetNone =>
                /\ read_pointer'[r] = read_pointer[r]
                /\ delivered'[r] = delivered[r]]_vars
    /\ [][\A r \in Readers :
            (last'[r] = RetNone /\ last[r] # RetNone) =>
                /\ ~Available(read_pointer[r])
                /\ pc[r] = "idle" /\ pc'[r] = "idle"]_vars
    /\ [][\A r \in Readers :
            (pc[r] = "idle" /\ pc'[r] = "idle" /\ last'[r] # last[r]
                /\ ~Available(read_pointer[r])) => last'[r] = RetNone]_vars
    /\ [](\A r \in Readers :
            (created[r] /\ pc[r] = "idle") => ENABLED ReadNextOpt(r))

C7_Witness ==
    /\ LastKind("r1") = "None"
    /\ delivered["r1"] # <<>>
    /\ read_pointer["r1"] = Len(log)

\* C8: in test_basic_readstream a pending read_next stays pending while the
\* log holds no record above the stream's read pointer, and completes once
\* such a record has been appended; the stream created after Lsn 5 has its 5
\* records only when 10 records have been appended, and then it does finish.
C8_PendingUntilAppended ==
    /\ [][\A r \in Readers :
            (pc[r] = "pending" /\ Len(log) <= read_pointer[r]) =>
                (pc'[r] = "pending" /\ delivered'[r] = delivered[r])]_vars
    /\ [](\A r \in Readers :
            \A k \in 1..NumReads :
                Len(delivered[r]) >= k => Len(log) >= after[r] + k)
    /\ \A r \in Readers :
            (pc[r] = "pending" /\ Len(log) > read_pointer[r]) ~> (pc[r] = "idle")
    /\ <>(/\ Len(delivered["r1"]) = NumReads
          /\ Len(log) = NumRecords
          /\ pc["r1"] = "idle")

C8_Witness ==
    /\ after["r1"] = ReadAfter
    /\ Len(log) = NumRecords
    /\ Len(delivered["r1"]) = NumReads
    /\ Last(delivered["r1"]) = DataRecord(ReadAfter + NumReads, RecordPayload(NumRecords))
    /\ read_pointer["r1"] = ReadAfter + NumReads

\* C9: a read by a stream whose pointer is below the trim point returns one
\* TrimGap that starts right above the pointer and reaches the trim point, and
\* moves the pointer to the end of the gap; no two records a stream receives
\* overlap, so a gap, and every offset inside it, is observed once; every
\* record received is whole: a Data record with the payload appended at its
\* offset, a TrimGap inside the trimmed range, or a Seal of the sealed log.
C9_OneTrimGap ==
    /\ [][\A r \in Readers :
            (delivered'[r] # delivered[r] /\ read_pointer[r] < trim_point) =>
                /\ Last(delivered'[r]) =
                      [offset |-> read_pointer[r] + 1,
                       record |-> [kind |-> "TrimGap", until |-> trim_point]]
                /\ read_pointer'[r] = trim_point]_vars
    /\ [](\A r \in Readers :
            \A i, j \in 1..Len(delivered[r]) :
                i < j => /\ Coverage(delivered[r][i]) \cap Coverage(delivered[r][j]) = {}
                         /\ \A x \in Coverage(delivered[r][i]) :
                              \A y \in Coverage(delivered[r][j]) : x < y)
    /\ [](\A r \in Readers :
            \A i \in 1..Len(delivered[r]) :
                LET rec == delivered[r][i] IN
                    \/ /\ rec.record.kind = "Data"
                       /\ rec.offset \in 1..Len(log)
                       /\ rec.record = [kind |-> "Data", payload |-> log[rec.offset]]
                    \/ /\ rec.record.kind = "TrimGap"
                       /\ rec.offset <= rec.record.until
                       /\ rec.record.until <= trim_point
                    \/ /\ rec.record.kind = "Seal"
                       /\ sealed
                       /\ rec.offset > Len(log))

C9_Witness ==
    /\ Len(delivered["r1"]) >= 2
    /\ delivered["r1"][1].record.kind = "TrimGap"
    /\ delivered["r1"][1].record.until > delivered["r1"][1].offset
    /\ delivered["r1"][2].record.kind = "Data"
    /\ trim_point > delivered["r1"][1].record.until

C11_SealIsTerminal ==
    /\ [][sealed => sealed']_vars
    /\ [][sealed => (log' = log /\ append_lsns' = append_lsns)]_vars
    /\ [][(sealed /\ append_ret' # append_ret) =>
            /\ append_ret'[1] = "Err"
            /\ running => append_ret' = <<"Err", "Sealed">>]_vars
    /\ [](sealed => AppendError # "None")

C11_Witness ==
    /\ sealed
    /\ running
    /\ Len(log) >= 1
    /\ append_ret = <<"Err", "Sealed">>

\* C13: an append that fails returns its error and leaves the log and the
\* Lsns handed out as they were; an append made while the service is not
\* running fails with NotRunning; an append that succeeds adds exactly one
\* record, at the end, and returns its Lsn, at which the payload is read.
C13_AppendAllOrNothing ==
    /\ [][(append_ret' # <<>> /\ append_ret'[1] = "Err") =>
            (log' = log /\ append_lsns' = append_lsns)]_vars
    /\ [][(~running /\ append_ret' # append_ret) =>
            append_ret' = <<"Err", "NotRunning">>]_vars
    /\ [][log' # log =>
            /\ running /\ ~sealed
            /\ Len(log') = Len(log) + 1
            /\ SubSeq(log', 1, Len(log)) = log
            /\ append_ret' = <<"Ok", Len(log')>>
            /\ append_lsns' = Append(append_lsns, Len(log'))
            /\ ReadNextSingleOpt(Len(log) - 1)' =
                  <<[offset |-> Len(log'),
                     record |-> [kind |-> "Data", payload |-> log'[Len(log')]]]>>]_vars
    /\ [](\A i \in 1..Len(delivered["r1"]) :
            delivered["r1"][i].record.kind = "Data" =>
                /\ delivered["r1"][i].offset \in 1..Len(log)
                /\ delivered["r1"][i].record.payload = log[delivered["r1"][i].offset])

C13_Witness ==
    /\ append_ret = <<"Err", "NotRunning">>
    /\ ~sealed
    /\ Len(log) >= 1
    /\ Len(append_lsns) = Len(log)

\* C12: on a sealed log, a read_next of a stream whose pointer is at or past
\* the last record (and past the trim point) can resolve at once, and when it
\* resolves it returns a Seal record; this holds again after a Seal was read.
C12_SealedReadReturnsSeal ==
    /\ [](\A r \in Readers :
            (/\ pc[r] = "pending"
             /\ sealed
             /\ read_pointer[r] >= Len(log)
             /\ read_pointer[r] >= trim_point)
            => ENABLED ReadNextComplete(r))
    /\ [][\A r \in Readers :
            (/\ pc[r] = "pending"
             /\ sealed
             /\ read_pointer[r] >= Len(log)
             /\ read_pointer[r] >= trim_point
             /\ pc'[r] = "idle"
             /\ last'[r][1] # "Cancelled")
            => /\ last'[r][1] = "Record"
               /\ last'[r][2].record.kind = "Seal"
               /\ delivered'[r] = Append(delivered[r], last'[r][2])]_vars

C12_Witness ==
    /\ sealed
    /\ Len(log) >= 1
    /\ Len(delivered["r1"]) >= 3
    /\ delivered["r1"][Len(delivered["r1"])].record.kind = "Seal"
    /\ delivered["r1"][Len(delivered["r1"]) - 1].record.kind = "Seal"
    /\ delivered["r1"][Len(delivered["r1"]) - 2].record.kind = "Data"
    /\ last["r1"] = <<"Record", delivered["r1"][Len(delivered["r1"])]>>

\* C14: appends in flight at the same time end up in one order: the Lsns
\* returned to all appenders are distinct and are exactly 1..Len(log), each
\* appender finds its payload at the Lsn it got, written records never move,
\* and every stream delivers the records after its start in Lsn order, same
\* record at the same Lsn for all streams.
C14_AppendsTotallyOrdered ==
    /\ [](\A w \in Appenders : \A i \in 1..Len(append_done[w]) :
            /\ append_done[w][i].lsn \in 1..Len(log)
            /\ log[append_done[w][i].lsn] = append_done[w][i].payload
            /\ \A v \in Appenders : \A j \in 1..Len(append_done[v]) :
                  (append_done[v][j].lsn = append_done[w][i].lsn) => (v = w /\ j = i))
    /\ [](\A lsn \in 1..Len(log) : \E w \in Appenders : \E i \in 1..Len(append_done[w]) :
            append_done[w][i].lsn = lsn)
    /\ [][SubSeq(log', 1, Len(log)) = log]_vars
    /\ [](\A r \in Readers : \A i \in 1..Len(delivered[r]) :
            /\ delivered[r][i].offset = after[r] + i
            /\ delivered[r][i] = DataRecord(after[r] + i, log[after[r] + i]))
    /\ [](\A r \in Readers : \A q \in Readers :
            \A i \in 1..Len(delivered[r]) : \A j \in 1..Len(delivered[q]) :
                (delivered[r][i].offset = delivered[q][j].offset)
                    => delivered[r][i] = delivered[q][j])

C14_Witness ==
    /\ log = <<<<"w2", 1>>, <<"w1", 1>>>>
    /\ append_call["w1"] = <<<<"w1", 2>>>>
    /\ after["r1"] = 0
    /\ after["r2"] = 1
    /\ Len(delivered["r1"]) = 2
    /\ Len(delivered["r2"]) = 1
    /\ delivered["r1"][2] = delivered["r2"][1]

\* C15: a step in which one stream reads, finishes or drops a read changes
\* no field of any other stream and nothing of the log.
C15_ReadersIndependent ==
    [][\A r \in Readers :
        (pc'[r] # pc[r] \/ last'[r] # last[r] \/ delivered'[r] # delivered[r])
        => /\ \A q \in Readers \ {r} :
                /\ read_pointer'[q] = read_pointer[q]
                /\ created'[q] = created[q]
                /\ after'[q] = after[q]
                /\ pc'[q] = pc[q]
                /\ last'[q] = last[q]
                /\ delivered'[q] = delivered[q]
           /\ log' = log
           /\ trim_point' = trim_point
           /\ sealed' = sealed
           /\ append_lsns' = append_lsns]_vars

C15_Witness ==
    /\ last["r1"] = <<"Cancelled", 0>>
    /\ read_pointer["r1"] = 0
    /\ pc["r2"] = "pending"
    /\ read_pointer["r2"] = 2
    /\ Len(delivered["r2"]) = 2
    /\ Len(log) = 2

\* this step hands ack_cmd to the state machine
Handed(ack_cmd) == sm_input' = Append(sm_input, ack_cmd)

\* the last applied sequence number of the source's identity, <<>> if none
Known(source) == dedup_table[DedupId(source)]

\* this step emits exactly one SendAckResponse, after any other Actions of
\* the command, and its AckKind is `kind`
EmitsOneAck(kind) ==
    /\ Len(actions') > Len(actions)
    /\ SubSeq(actions', 1, Len(actions)) = actions
    /\ actions'[Len(actions')].action = "SendAckResponse"
    /\ actions'[Len(actions')].response.kind = kind
    /\ \A i \in (Len(actions) + 1)..(Len(actions') - 1) :
          actions'[i].action # "SendAckResponse"

\* the Dedup commands of the source identity `id` among the applied ones
AppliedOf(id) ==
    SelectSeq(applied, LAMBDA c : c.ack_mode.mode = "Dedup"
                                    /\ DedupId(c.ack_mode.source) = id)

\* C16: a Dedup command whose seq_number is <= the last applied one of its
\* source is not applied: applied commands and dedup table stay as they are,
\* the only Action is one SendAckResponse, with Duplicate{seq_number: its
\* own, last_known_seq_number: the last applied}; each redelivery included.
C16_DuplicateNotReapplied ==
    [][\A cmd \in Commands : \A source \in DedupSources :
        (/\ Handed(AckCommandDedup(cmd, source))
         /\ Known(source) # <<>>
         /\ source.seq_number <= Known(source)[1])
        => /\ applied' = applied
           /\ dedup_table' = dedup_table
           /\ violations' = violations
           /\ Len(actions') = Len(actions) + 1
           /\ EmitsOneAck([kind |-> "Duplicate",
                           seq_number |-> source.seq_number,
                           last_known_seq_number |-> Known(source)[1]])]_vars

C16_Witness ==
    /\ Len(sm_input) = 3
    /\ sm_input[1].ack_mode.mode = "Dedup"
    /\ sm_input[1].ack_mode.source.seq_number = 1
    /\ sm_input[1].cmd.type = "Invocation"
    /\ sm_input[2] = sm_input[1]
    /\ sm_input[3] = sm_input[1]
    /\ Len(applied) = 1
    /\ Len(actions) = 4
    /\ actions[3].response.kind =
          [kind |-> "Duplicate", seq_number |-> 1, last_known_seq_number |-> 1]
    /\ actions[4] = actions[3]

\* C17: a Dedup command that is the first of its source, or whose
\* seq_number is the last applied one plus 1, is applied once in that step,
\* the source's last applied number becomes its seq_number, and it is
\* answered with one Acknowledge(seq_number).
C17_NextInSequenceApplied ==
    [][\A cmd \in Commands : \A source \in DedupSources :
        (/\ Handed(AckCommandDedup(cmd, source))
         /\ \/ Known(source) = <<>>
            \/ source.seq_number = Known(source)[1] + 1)
        => /\ applied' = Append(applied, AckCommandDedup(cmd, source))
           /\ dedup_table' = [dedup_table EXCEPT ![DedupId(source)] = <<source.seq_number>>]
           /\ violations' = violations
           /\ EmitsOneAck([kind |-> "Acknowledge",
                           seq_number |-> source.seq_number])]_vars

C17_Witness ==
    /\ Len(sm_input) = 2
    /\ sm_input[1].ack_mode.mode = "Dedup"
    /\ sm_input[2].ack_mode.mode = "Dedup"
    /\ sm_input[1].ack_mode.source = ShuffleSource("peer-1", "partition-1", 1)
    /\ sm_input[2].ack_mode.source = ShuffleSource("peer-1", "partition-1", 2)
    /\ applied = sm_input
    /\ dedup_table[<<"Shuffle", "partition-1", "peer-1">>] = <<2>>
    /\ actions[Len(actions)].response.kind = [kind |-> "Acknowledge", seq_number |-> 2]

\* C19: for every dedup source identity the seq_numbers of its applied
\* commands are strictly increasing, the table holds the latest of them and
\* never goes back, so no (source, seq_number) is applied twice.
C19_AppliedSeqStrictlyIncreasing ==
    /\ [](\A id \in DedupIds :
            /\ \A i \in 1..Len(AppliedOf(id)) : \A j \in 1..Len(AppliedOf(id)) :
                  i < j => AppliedOf(id)[i].ack_mode.source.seq_number
                              < AppliedOf(id)[j].ack_mode.source.seq_number
            /\ (dedup_table[id] = <<>>) <=> (AppliedOf(id) = <<>>)
            /\ dedup_table[id] # <<>> =>
                  dedup_table[id][1] =
                      AppliedOf(id)[Len(AppliedOf(id))].ack_mode.source.seq_number)
    /\ [][\A id \in DedupIds :
            dedup_table[id] # <<>> =>
                /\ dedup_table'[id] # <<>>
                /\ dedup_table'[id][1] >= dedup_table[id][1]]_vars

C19_Witness ==
    /\ Len(sm_input) = 3
    /\ sm_input[1].ack_mode = [mode |-> "Dedup", source |-> IngressSource("node-1", "req-1", 1)]
    /\ sm_input[2] = sm_input[1]
    /\ sm_input[3].ack_mode = [mode |-> "Dedup", source |-> IngressSource("node-1", "req-1", 2)]
    /\ applied = <<sm_input[1], sm_input[3]>>
    /\ dedup_table[<<"Ingress", "node-1", "req-1">>] = <<2>>

\* C20: a command with AckMode::Ack(target) is applied on every delivery,
\* whatever the dedup table holds; the table stays as it is and the step
\* emits exactly one SendAckResponse: Ingress, dedup_source None,
\* Acknowledge(the target's seq_number).
C20_AckNeverSuppressed ==
    [][\A cmd \in Commands : \A target \in AckTargets :
        Handed(AckCommandAck(cmd, target))
        => /\ applied' = Append(applied, AckCommandAck(cmd, target))
           /\ dedup_table' = dedup_table
           /\ violations' = violations
           /\ EmitsOneAck([kind |-> "Acknowledge", seq_number |-> target.seq_number])
           /\ actions'[Len(actions')].response =
                 [response |-> "Ingress",
                  from_node_id |-> target.node_id,
                  dedup_source |-> <<>>,
                  kind |-> [kind |-> "Acknowledge", seq_number |-> target.seq_number]]]_vars

C20_Witness ==
    /\ Len(sm_input) = 3
    /\ sm_input[1].ack_mode = [mode |-> "Dedup", source |-> IngressSource("node-1", "req-1", 1)]
    /\ sm_input[2].ack_mode = [mode |-> "Ack", target |-> IngressTarget("node-1", 1)]
    /\ sm_input[3] = sm_input[2]
    /\ applied = sm_input
    /\ dedup_table[<<"Ingress", "node-1", "req-1">>] = <<1>>
    /\ actions[Len(actions)].response.dedup_source = <<>>

\* C21: the k-th command handed to the state machine is the record at Lsn k
\* of the partition's log, and the Actions emitted are ordered by the Lsn of
\* the command that caused them.
C21_ActionsFollowLogOrder ==
    /\ [](\A k \in 1..Len(sm_input) :
            /\ k <= Len(log)
            /\ sm_input[k] = log[k]
            /\ delivered["r1"][k].offset = k)
    /\ [](/\ Len(action_input) = Len(actions)
          /\ \A a \in 1..Len(actions) : action_input[a] \in 1..Len(sm_input)
          /\ \A a \in 1..Len(actions) : \A b \in 1..Len(actions) :
                action_input[a] < action_input[b] => a < b)
    /\ [][/\ SubSeq(actions', 1, Len(actions)) = actions
          /\ SubSeq(sm_input', 1, Len(sm_input)) = sm_input]_vars

C21_Witness ==
    /\ Len(sm_input) = 3
    /\ sm_input = log
    /\ sm_input[1] # sm_input[2]
    /\ sm_input[3].cmd.type = "TerminateInvocation"
    /\ action_input = <<1, 3, 3, 3>>
    /\ actions[2].action = "AbortInvocation"
    /\ actions[3].action = "Invoke"
    /\ actions[4].action = "SendAckResponse"

NewActions == SubSeq(actions', Len(actions) + 1, Len(actions'))

\* the invocation is neither in flight nor waiting in an inbox
Unknown(fid) ==
    /\ fid \notin invoked
    /\ \A service_id \in ServiceIds :
         \A i \in 1..Len(inbox[service_id]) : inbox[service_id][i] # fid

\* C23: after any sequence of applied commands a service instance
\* (service name, key) has at most one invocation in flight, and an Invoke
\* Action is emitted for an instance only when no other invocation of that
\* instance is in flight.
C23_PerKeyIsolation ==
    /\ [](\A fid \in invoked : \A other \in invoked :
            fid.service_id = other.service_id => fid = other)
    /\ [][\A i \in 1..Len(NewActions) :
            NewActions[i].action = "Invoke" =>
              LET fid == NewActions[i].full_invocation_id
                  cmd == sm_input'[Len(sm_input')].cmd
              IN /\ fid \in invoked'
                 /\ \A other \in invoked' \cup invoked :
                      (other.service_id = fid.service_id /\ other # fid)
                        => /\ other \in invoked
                           /\ other \notin invoked'
                           /\ cmd.type \in {"Invoker", "TerminateInvocation"}
                           /\ cmd.fid = other]_vars

C23_Witness ==
    /\ Len(sm_input) = 3
    /\ sm_input[1].cmd = InvocationCommand(FullInvocationIdNew("greeter", "k1", "uuid-1"))
    /\ sm_input[2].cmd = InvocationCommand(FullInvocationIdNew("greeter", "k1", "uuid-2"))
    /\ sm_input[3].cmd = InvocationCommand(FullInvocationIdNew("greeter", "k2", "uuid-1"))
    /\ actions = <<Invoke(FullInvocationIdNew("greeter", "k1", "uuid-1")),
                   Invoke(FullInvocationIdNew("greeter", "k2", "uuid-1"))>>
    /\ Cardinality(invoked) = 2
    /\ inbox[ServiceIdNew("greeter", "k1")] = <<FullInvocationIdNew("greeter", "k1", "uuid-2")>>

LastCall == id_trace[Len(id_trace)]
CallBefore == id_trace[Len(id_trace) - 1]

\* C26: to_bytes of an InvocationId is exactly 24 bytes, the 8 bytes of
\* the partition key in big-endian order followed by the 16 uuid bytes,
\* and from_slice of those bytes is the id again.
C26_BinaryRoundTrip ==
    /\ (id_trace # <<>> /\ LastCall.op = "to_bytes")
         => LET id == LastCall.arg.v
                b == id_value.v
            IN /\ Len(b) = 24
               /\ \A i \in 1..Len(b) : b[i] \in 0..255
               /\ \A k \in 1..4 : b[2 * k - 1] * 256 + b[2 * k] = id.partition_key[k]
               /\ \A k \in 1..8 : b[8 + 2 * k - 1] * 256 + b[8 + 2 * k] = id.inner[k]
    /\ (Len(id_trace) >= 2 /\ LastCall.op = "from_slice" /\ CallBefore.op = "to_bytes")
         => /\ id_value.kind = "InvocationId"
            /\ id_value.v = CallBefore.arg.v

C26_Witness ==
    /\ Len(id_trace) = 2
    /\ id_trace[1].op = "to_bytes"
    /\ id_trace[1].arg.v.partition_key = <<0, 0, 0, 92>>
    /\ id_trace[2].op = "from_slice"
    /\ id_trace[2].arg.v = <<0, 0, 0, 0, 0, 0, 0, 92,
                             1, 142, 27, 17, 190, 239, 202, 254,
                             18, 52, 86, 120, 154, 188, 222, 240>>
    /\ id_value.kind = "InvocationId"
    /\ id_value.v.inner = <<398, 6929, 48879, 51966, 4660, 22136, 39612, 57072>>

\* C27: the string form of an InvocationId has exactly 38 characters,
\* whatever its partition key and uuid, and from_str of it is the id
\* again.
C27_StringRoundTrip ==
    /\ (id_trace # <<>> /\ LastCall.op = "to_string")
         => /\ Len(id_value.v) = 38
            /\ EstimateBufCapacity = 38
    /\ (Len(id_trace) >= 2 /\ LastCall.op = "from_str" /\ CallBefore.op = "to_string")
         => /\ id_value.kind = "InvocationId"
            /\ id_value.v = CallBefore.arg.v

C27_Witness ==
    /\ Len(id_trace) = 2
    /\ id_trace[1].op = "to_string"
    /\ id_trace[1].arg.v.partition_key = <<65535, 65535, 65535, 65535>>
    /\ id_trace[2].op = "from_str"
    /\ id_trace[2].arg.v =
         <<"i", "n", "v", "_", "1", "L", "y", "g", "H", "a", "1", "6", "A", "H", "Y", "F", "0", "2", "v", "v", "x", "U", "V", "n", "6", "e", "Q", "I", "R", "P", "j", "z", "5", "r", "Y", "J", "g", "O">>
    /\ id_value.kind = "InvocationId"
    /\ id_value.v.inner = <<398, 6929, 48879, 51966, 4660, 22136, 39612, 57072>>

\* what from_str was given, split at its first separator
HasSeparator(input) == \E i \in 1..Len(input) : input[i] = IdResourceSeparator
PrefixOf(input) ==
    SubSeq(input, 1, (CHOOSE i \in 1..Len(input) :
                        /\ input[i] = IdResourceSeparator
                        /\ \A j \in 1..(i - 1) : input[j] # IdResourceSeparator) - 1)
BodyOf(input) == SubSeq(input, Len(PrefixOf(input)) + 2, Len(input))

C29_DecodeNeverAborts == id_value.kind # "Panic"

\* C30: every ServiceId built by a public constructor carries the hash of
\* its key as partition_key.
C30_PartitionKeyIsHashOfKey ==
    id_value.kind = "ServiceId"
      => id_value.v.partition_key = ComputePartitionKey(id_value.v.key)

\* C31: from_str of a LambdaARN string followed by to_string gives the
\* string back, for every string from_str accepts.
C31_LambdaArnRoundTrip ==
    (Len(id_trace) >= 2 /\ LastCall.op = "LambdaARN::to_string"
                        /\ CallBefore.op = "LambdaARN::from_str")
      => /\ id_value.kind = "ArnStr"
         /\ id_value.v = CallBefore.arg.v

C31_Witness ==
    /\ Len(id_trace) = 2
    /\ id_trace[1].op = "LambdaARN::from_str"
    /\ id_trace[1].arg.v = <<"arn", ":", "aws", ":", "lambda", ":", "eu-central-1", ":",
                             "1234567890", ":", "function", ":", "e2e-node-services", ":",
                             "version", ":", "1">>
    /\ id_trace[2].op = "LambdaARN::to_string"
    /\ id_trace[2].arg.v.version = <<"version", ":", "1">>
    /\ id_value.v = id_trace[1].arg.v

\* the colons of an ARN string, and an ARN whose first seven components
\* are those of a valid lambda function ARN
Colons(arn) == {i \in 1..Len(arn) : arn[i] = Colon}
ValidUpToName(arn) ==
    /\ Len(arn) >= 13
    /\ arn[1] = "arn" /\ arn[3] # Colon /\ arn[5] = "lambda" /\ arn[7] # Colon
    /\ arn[9] # Colon /\ arn[11] = "function" /\ arn[13] # Colon
    /\ \A i \in {2, 4, 6, 8, 10, 12} : arn[i] = Colon

\* C32: from_str rejects an otherwise valid ARN without version component
\* (seven components) or with an empty one (trailing colon) with
\* MissingVersionSuffix, and an input of fewer than seven components with
\* InvalidFormat.
C32_LambdaArnMissingVersion ==
    (id_trace # <<>> /\ LastCall.op = "LambdaARN::from_str")
      => LET arn == LastCall.arg.v
         IN /\ (ValidUpToName(arn) /\ Len(arn) = 13) => id_value = Err("MissingVersionSuffix")
            /\ (ValidUpToName(arn) /\ Len(arn) = 14) => id_value = Err("MissingVersionSuffix")
            /\ Cardinality(Colons(arn)) < 6 => id_value = Err("InvalidFormat")

C32_Witness ==
    /\ Len(id_trace) = 1
    /\ LastCall.op = "LambdaARN::from_str"
    /\ LastCall.arg.v = <<"arn", ":", "aws", ":", "lambda", ":", "eu-central-1", ":",
                          "1234567890", ":", "function", ":", "e2e-node-services", ":">>
    /\ id_value = Err("MissingVersionSuffix")

\* the invocations the Invocation commands applied so far named for an
\* instance, oldest first
InvocationsFor(service_id) ==
    LET named == SelectSeq(sm_input, LAMBDA ack_cmd :
                     /\ ack_cmd.cmd.type = "Invocation"
                     /\ ack_cmd.cmd.fid.service_id = service_id)
    IN [i \in 1..Len(named) |-> named[i].cmd.fid]

\* `queue` holds elements of `all` in the order they have in `all`
RECURSIVE InOrderOf(_, _)
InOrderOf(queue, all) ==
    IF queue = <<>> THEN TRUE
    ELSE IF all = <<>> THEN FALSE
    ELSE IF Head(queue) = Head(all) THEN InOrderOf(Tail(queue), Tail(all))
    ELSE InOrderOf(queue, Tail(all))

\* C33: an Invocation command for an instance with an invocation in
\* flight emits no Action and puts the invocation at the tail of the
\* instance's inbox, so every inbox holds its invocations in the order
\* their commands were applied, and the one invoked next is the oldest.
C33_InboxFifo ==
    /\ [][LET cmd == sm_input'[Len(sm_input')].cmd
          IN (/\ Len(sm_input') = Len(sm_input) + 1
              /\ cmd.type = "Invocation"
              /\ \E fid \in invoked : fid.service_id = cmd.fid.service_id)
             => /\ actions' = actions
                /\ invoked' = invoked
                /\ inbox' = [inbox EXCEPT ![cmd.fid.service_id] = @ \o <<cmd.fid>>]]_vars
    /\ [](\A service_id \in ServiceIds :
            InOrderOf(inbox[service_id], InvocationsFor(service_id)))
    /\ [][\A i \in 1..Len(NewActions) :
            (NewActions[i].action = "Invoke"
               /\ sm_input'[Len(sm_input')].cmd.type # "Invocation")
              => LET fid == NewActions[i].full_invocation_id
                 IN /\ inbox[fid.service_id] # <<>>
                    /\ fid = Head(inbox[fid.service_id])
                    /\ inbox'[fid.service_id] = Tail(inbox[fid.service_id])]_vars

C33_Witness ==
    /\ Len(sm_input) = 3
    /\ actions = <<Invoke(FullInvocationIdNew("greeter", "k1", "uuid-1"))>>
    /\ inbox[ServiceIdNew("greeter", "k1")] =
         <<FullInvocationIdNew("greeter", "k1", "uuid-3"),
           FullInvocationIdNew("greeter", "k1", "uuid-2")>>

\* the read ended with an error
Failed(ret) == ret # NoCall /\ ret[1] = "Error"

\* C34: a read_next or read_next_opt whose log read fails returns the
\* error and leaves the read pointer where it was, and the next read that
\* succeeds returns the record the failed one would have returned.
C34_FailedReadKeepsPointer ==
    /\ [][(Failed(last'["r1"]) /\ last'["r1"] # last["r1"])
            => /\ read_pointer'["r1"] = read_pointer["r1"]
               /\ last'["r1"][2] = read_pointer["r1"]
               /\ delivered' = delivered]_vars
    /\ [](Failed(last["r1"]) => read_pointer["r1"] = last["r1"][2])
    /\ [][(/\ Failed(last["r1"])
           /\ last["r1"][3] # <<>>
           /\ Len(delivered'["r1"]) = Len(delivered["r1"]) + 1)
            => Last(delivered'["r1"]) = last["r1"][3][1]]_vars

C34_Witness ==
    /\ Failed(last["r1"])
    /\ last["r1"][2] = 1
    /\ last["r1"][3] # <<>>
    /\ last["r1"][3][1].offset = 2
    /\ Len(delivered["r1"]) = 1
    /\ read_pointer["r1"] = 1
    /\ pc["r1"] = "idle"
    /\ ~running

----------------------------------------------------------------------------
(* Several producers *)

\* the producer identity of a source, written out field by field
IdentityOf(source) ==
    IF source.kind = "Shuffle"
    THEN <<"Shuffle", source.producing_partition_id, source.shuffle_id>>
    ELSE <<"Ingress", source.from_node_id, source.source_id>>

Identities == {IdentityOf(source) : source \in IdentitySources}

\* the SendAckResponse Actions this step emits
NewAckResponses ==
    {actions'[i].response : i \in {j \in (Len(actions) + 1)..Len(actions') :
                                      actions'[j].action = "SendAckResponse"}}

\* C35: every AckResponse emitted for a command with a dedup source goes to
\* that command's producer and echoes its sequence number: a Shuffle source
\* gets AckResponse::Shuffle with shuffle_target = its shuffle_id, an Ingress
\* source gets AckResponse::Ingress with its node id and dedup_source =
\* Some(source_id), and the Acknowledge or Duplicate kind carries the
\* command's own seq_number
C35_AckAddressedToProducer ==
    [][\A source \in IdentitySources :
          Handed(AckCommandDedup(OutboxTruncationCommand(0), source)) =>
              \A response \in NewAckResponses :
                  /\ response.response = source.kind
                  /\ source.kind = "Shuffle" =>
                         response.shuffle_target = source.shuffle_id
                  /\ source.kind = "Ingress" =>
                         /\ response.from_node_id = source.from_node_id
                         /\ response.dedup_source = <<source.source_id>>
                  /\ response.kind.kind \in {"Acknowledge", "Duplicate"}
                  /\ response.kind.seq_number = source.seq_number]_vars

\* C35 witness: an Acknowledge to shuffle peer-2 and a Duplicate to the
\* ingress source req-2 of node-1 were both sent, each with the number of the
\* command it answers
C35_Witness ==
    /\ \E i \in 1..Len(actions) :
          actions[i] = SendAckResponse(
              ShuffleResponse("peer-2", AckKindAcknowledge(1)))
    /\ \E i \in 1..Len(actions) :
          actions[i] = SendAckResponse(
              IngressResponse("node-1", <<"req-2">>, AckKindDuplicate(0, 2)))

\* last_applied of an identity in a dedup table, <<>> if it has no entry
LastAppliedIn(table, id) == IF id \in DOMAIN table THEN table[id] ELSE <<>>

\* C36: dedup tracking is per producer identity: a command of one identity,
\* applied or rejected, leaves last_applied of every other identity as it
\* was, and a sequence number already applied for another identity is still
\* applied for an identity that has not seen it
C36_DedupPerIdentity ==
    [][\A source \in IdentitySources :
          Handed(AckCommandDedup(OutboxTruncationCommand(0), source)) =>
              /\ \A id \in Identities \ {IdentityOf(source)} :
                    LastAppliedIn(dedup_table', id) = LastAppliedIn(dedup_table, id)
              /\ (/\ LastAppliedIn(dedup_table, IdentityOf(source)) = <<>>
                  /\ \E id \in Identities \ {IdentityOf(source)} :
                        LastAppliedIn(dedup_table, id) = <<source.seq_number>>)
                    => /\ applied' = Append(applied,
                              AckCommandDedup(OutboxTruncationCommand(0), source))
                       /\ LastAppliedIn(dedup_table', IdentityOf(source))
                              = <<source.seq_number>>
                       /\ NewAckResponses = {Acknowledge(source)}]_vars

\* C36 witness: sequence number 1 was applied for two ingress sources of the
\* same node and for two shuffles of the same peer
C36_Witness ==
    /\ dedup_table[<<"Ingress", "node-1", "req-1">>] = <<1>>
    /\ dedup_table[<<"Ingress", "node-1", "req-2">>] = <<1>>
    /\ dedup_table[<<"Shuffle", "partition-2", "peer-1">>] = <<1>>
    /\ Len(applied) = 3

\* C37: a command handed in with AckMode::None is applied, emits the Actions
\* of the command and no SendAckResponse, and leaves the dedup table and the
\* recorded sequence violations as they were, whatever the table holds and
\* whether or not the command has an effect on the partition state
C37_NoAckNoTracking ==
    [][\A cmd \in Commands :
          Handed(AckCommandNoAck(cmd)) =>
              /\ NewAckResponses = {}
              /\ actions' = actions \o CommandActions(cmd)
              /\ applied' = Append(applied, AckCommandNoAck(cmd))
              /\ dedup_table' = dedup_table
              /\ violations' = violations]_vars

\* C37 witness: with sequence number 1 applied for the shuffle, an invocation
\* and then a command without effect were handed in with AckMode::None; the
\* table still holds 1 and the only acknowledgement is the shuffle's
C37_Witness ==
    /\ Len(sm_input) = 3
    /\ sm_input[1] = AckCommandDedup(OutboxTruncationCommand(0),
                                     ShuffleSource("peer-1", "partition-1", 1))
    /\ sm_input[2] = AckCommandNoAck(
           InvocationCommand(FullInvocationIdNew("greeter", "k1", "uuid-1")))
    /\ sm_input[3] = AckCommandNoAck(OutboxTruncationCommand(0))
    /\ applied = sm_input
    /\ dedup_table[<<"Shuffle", "partition-1", "peer-1">>] = <<1>>
    /\ actions = <<SendAckResponse(Acknowledge(ShuffleSource("peer-1", "partition-1", 1))),
                   Invoke(FullInvocationIdNew("greeter", "k1", "uuid-1"))>>

----------------------------------------------------------------------------
(* Node::run *)

\* no spawned component has ended without being signalled
NoComponentEnded ==
    \A c \in Components :
        component_set[c] \notin {"exited_ok", "exited_err", "panicked"}

\* C38: the worker role is started only after attach_node returned Ok; when
\* the last attachment attempt of the retry policy fails, Node::run returns
\* Error::Attachment and the worker role was never started; the server and
\* the cluster controller role (if the node has one) are started before any
\* attachment is attempted
C38_WorkerAfterAttachment ==
    /\ [](component_set["worker-role"] # "none" => attached)
    /\ [](run_result = Err("Attachment") =>
              /\ attach_attempts = AttachMaxAttempts
              /\ ~attached
              /\ component_set["worker-role"] = "none")
    /\ [][attach_attempts' = AttachMaxAttempts /\ attach_attempts < AttachMaxAttempts =>
              /\ run_result' = Err("Attachment")
              /\ node_pc' = "returned"]_vars
    /\ [](node_pc # "new" \/ attach_attempts > 0 \/ attached =>
              /\ component_set["server"] # "none"
              /\ node.v.cluster_controller_role =>
                     component_set["cluster-controller-role"] # "none")

\* C38 witness: a node with both roles used up its attachment attempts; run
\* returned Error::Attachment, the server and the cluster controller role had
\* been started and the worker role never was
C38_Witness ==
    /\ run_result = Err("Attachment")
    /\ attach_attempts = AttachMaxAttempts
    /\ node.v.worker_role
    /\ node.v.cluster_controller_role
    /\ component_set["worker-role"] = "none"
    /\ component_set["server"] = "aborted"
    /\ component_set["cluster-controller-role"] = "aborted"

\* C39 as stated: once the shutdown signal fired while Node::run was
\* attaching (and no component ended by itself), the worker role is never
\* started and run returns nothing but Ok(())
C39_ShutdownWhileAttaching ==
    [](signal_at = "attaching" /\ NoComponentEnded =>
           /\ component_set["worker-role"] = "none"
           /\ node_pc = "returned" => run_result = Ok("Unit", <<>>))

\* C39: when the first select takes its shutdown branch, the worker role has
\* not been started and never is; Node::run returns Ok(()) only after the
\* shutdown signal fired and every component it started has finished, the
\* worker role included when it was started. A signal that fires while run
\* is attaching can lose the select to an attachment result that is ready:
\* the worker role is then started only if attach_node returned Ok
C39_ShutdownDrains ==
    /\ [][node_pc = "attaching" /\ node_pc' = "draining" =>
              shutdown /\ component_set["worker-role"] = "none"]_vars
    /\ [](node_pc \in {"draining", "returned"} /\ ~attached =>
              component_set["worker-role"] = "none")
    /\ [](run_result = Ok("Unit", <<>>) =>
              /\ shutdown
              /\ \A c \in Components :
                    component_set[c] \notin {"running", "aborted"}
              /\ component_set["server"] # "none"
              /\ attached /\ node.v.worker_role =>
                     component_set["worker-role"] # "none")
    /\ [](signal_at = "attaching" /\ component_set["worker-role"] # "none" =>
              attached)

\* C39 witness: the signal fired while a node with a worker role was
\* attaching; run returned Ok(()) with the server and the cluster controller
\* role drained and the worker role never started
C39_Witness ==
    /\ signal_at = "attaching"
    /\ ~attached
    /\ node.v.worker_role
    /\ run_result = Ok("Unit", <<>>)
    /\ component_set["server"] = "drained"
    /\ component_set["cluster-controller-role"] = "drained"
    /\ component_set["worker-role"] = "none"

----------------------------------------------------------------------------
(* ServiceInvocationSpanContext::start *)

\* C40: start called with SpanRelation::None returns a span context of a new
\* trace: trace id and span id taken from the invocation uuid, trace flags
\* SAMPLED, cause None, and not the empty span context
C40_StartNoneNewTrace ==
    (/\ Len(id_trace) >= 1
     /\ LastCall.op = "ServiceInvocationSpanContext::start"
     /\ LastCall.arg.v.related_span = SpanRelationNone)
      => /\ id_value.v.span_context.trace_id = TraceIdFrom(LastCall.arg.v.invocation_uuid)
         /\ id_value.v.span_context.span_id = SpanIdFrom(LastCall.arg.v.invocation_uuid)
         /\ id_value.v.span_context.trace_flags = "SAMPLED"
         /\ id_value.v.cause = <<>>
         /\ id_value.v # SpanContextEmpty

====
